---------------------------- MODULE Spec2Model ----------------------------
(***************************************************************************)
(* Model of the carrier-sales backend (src/backend/app/api): the offer     *)
(* evaluation policy (offers.py) and the load search (loads.py) over the   *)
(* loads table (db_models.py), the handlers of main.py, and the carrier    *)
(* eligibility check, the seeding of the loads table and the recording of  *)
(* completed calls of src/app/api.                                         *)
(*                                                                         *)
(* Money.  The code computes with Python floats, and so does the model: an *)
(* amount is an IEEE 754 double, held as sign, 53-bit mantissa and binary  *)
(* exponent, and *, +, -, the comparisons, round(x, 2), the ":.2f" format  *)
(* and float(text) are computed bit for bit as CPython computes them       *)
(* (round to nearest, ties to even).  0.9 below is the double nearest to   *)
(* 0.9, and 1000.07 * 0.9 is 900.0630000000001.                            *)
(*                                                                         *)
(* Text.  A string the code inspects (origin, destination, equipment,      *)
(* pickup timestamp, search criteria, numbers sent as text) is a sequence  *)
(* of one-character strings, the characters being those of Latin-1;        *)
(* identifiers and fixed messages are TLA+ strings.                        *)
(*                                                                         *)
(* Integers.  A Python int the code computes with (the negotiation round)  *)
(* is a sign and a magnitude of any size.                                  *)
(*                                                                         *)
(* Optional values.  Python's None is the empty sequence, a present value  *)
(* x is <<x>>.                                                             *)
(***************************************************************************)
EXTENDS Integers, Sequences, FiniteSets, TLC

VARIABLES startup, loads, request, response, call_sessions, metrics, verification

vars == <<startup, loads, request, response, call_sessions, metrics, verification>>

None == <<>>
Some(x) == <<x>>
IsNone(o) == o = <<>>
Val(o) == o[1]

Min(a, b) == IF a <= b THEN a ELSE b

Digit(d) == <<"0", "1", "2", "3", "4", "5", "6", "7", "8", "9">>[d + 1]

-----------------------------------------------------------------------------
(* Natural numbers of any size: the limbs of base 2^15, the least
   significant first, without a leading zero limb; zero is <<>>. *)

LimbBits == 15
Base == 2^LimbBits

Zeros(k) == IF k = 0 THEN <<>> ELSE [i \in 1..k |-> 0]

RECURSIVE BigNorm(_)
BigNorm(a) ==
    IF a # <<>> /\ a[Len(a)] = 0 THEN BigNorm(SubSeq(a, 1, Len(a) - 1)) ELSE a

RECURSIVE BigOfNat(_)
BigOfNat(n) == IF n = 0 THEN <<>> ELSE <<n % Base>> \o BigOfNat(n \div Base)

Limb(a, i) == IF i <= Len(a) THEN a[i] ELSE 0

\* limbs lo..hi of a + b + carry, and the carry out of them
RECURSIVE BigAddRange(_, _, _, _, _)
BigAddRange(a, b, lo, hi, carry) ==
    IF lo > hi THEN [limbs |-> <<>>, carry |-> carry]
    ELSE IF lo = hi
    THEN LET s == Limb(a, lo) + Limb(b, lo) + carry
         IN  [limbs |-> <<s % Base>>, carry |-> s \div Base]
    ELSE LET mid == (lo + hi) \div 2
             low == BigAddRange(a, b, lo, mid, carry)
             high == BigAddRange(a, b, mid + 1, hi, low.carry)
         IN  [limbs |-> low.limbs \o high.limbs, carry |-> high.carry]

\* the limbs of s with its carry, if there is one, on top
WithCarry(s) == IF s.carry = 0 THEN s.limbs ELSE Append(s.limbs, s.carry)

BigAdd(a, b) ==
    WithCarry(BigAddRange(a, b, 1, IF Len(a) > Len(b) THEN Len(a) ELSE Len(b), 0))

\* limbs lo..hi of a - b - borrow, and the borrow out of them
RECURSIVE BigSubRange(_, _, _, _, _)
BigSubRange(a, b, lo, hi, borrow) ==
    IF lo > hi THEN [limbs |-> <<>>, borrow |-> borrow]
    ELSE IF lo = hi
    THEN LET s == a[lo] - Limb(b, lo) - borrow
         IN  [limbs |-> <<(s + Base) % Base>>, borrow |-> IF s < 0 THEN 1 ELSE 0]
    ELSE LET mid == (lo + hi) \div 2
             low == BigSubRange(a, b, lo, mid, borrow)
             high == BigSubRange(a, b, mid + 1, hi, low.borrow)
         IN  [limbs |-> low.limbs \o high.limbs, borrow |-> high.borrow]

\* a - b, for a >= b
BigSub(a, b) == BigNorm(BigSubRange(a, b, 1, Len(a), 0).limbs)

RECURSIVE BigCmpFrom(_, _, _)
BigCmpFrom(a, b, i) ==
    IF i = 0 THEN 0
    ELSE IF a[i] # b[i] THEN (IF a[i] < b[i] THEN -1 ELSE 1)
    ELSE BigCmpFrom(a, b, i - 1)

\* -1, 0 or 1 as a < b, a = b or a > b
BigCmp(a, b) ==
    IF Len(a) # Len(b) THEN (IF Len(a) < Len(b) THEN -1 ELSE 1)
    ELSE BigCmpFrom(a, b, Len(a))

\* limbs lo..hi of a * s + carry, and the carry out of them
RECURSIVE BigMulSmallRange(_, _, _, _, _)
BigMulSmallRange(a, s, lo, hi, carry) ==
    IF lo > hi THEN [limbs |-> <<>>, carry |-> carry]
    ELSE IF lo = hi
    THEN LET p == a[lo] * s + carry
         IN  [limbs |-> <<p % Base>>, carry |-> p \div Base]
    ELSE LET mid == (lo + hi) \div 2
             low == BigMulSmallRange(a, s, lo, mid, carry)
             high == BigMulSmallRange(a, s, mid + 1, hi, low.carry)
         IN  [limbs |-> low.limbs \o high.limbs, carry |-> high.carry]

\* a * s for 0 <= s < Base
BigMulSmall(a, s) == BigNorm(WithCarry(BigMulSmallRange(a, s, 1, Len(a), 0)))

\* a * Base^k
BigShiftLimbs(a, k) == IF a = <<>> THEN <<>> ELSE Zeros(k) \o a

RECURSIVE BigMulFrom(_, _, _)
BigMulFrom(a, b, j) ==
    IF j > Len(b) THEN <<>>
    ELSE BigAdd(BigShiftLimbs(BigMulSmall(a, b[j]), j - 1), BigMulFrom(a, b, j + 1))

BigMul(a, b) == BigMulFrom(a, b, 1)

\* long division of limbs hi down to lo of a by d, rem being the remainder
\* that comes down from the limbs above; the quotient's limbs come most
\* significant first
RECURSIVE BigDivSmallRange(_, _, _, _, _)
BigDivSmallRange(a, d, lo, hi, rem) ==
    IF lo > hi THEN [q |-> <<>>, r |-> rem]
    ELSE IF lo = hi
    THEN LET cur == rem * Base + a[lo]
         IN  [q |-> <<cur \div d>>, r |-> cur % d]
    ELSE LET mid == (lo + hi) \div 2
             high == BigDivSmallRange(a, d, mid + 1, hi, rem)
             low == BigDivSmallRange(a, d, lo, mid, high.r)
         IN  [q |-> high.q \o low.q, r |-> low.r]

\* s from its last element to its first
Reversed(s) == IF s = <<>> THEN <<>> ELSE [i \in 1..Len(s) |-> s[Len(s) + 1 - i]]

\* qr with the limbs of its quotient least significant first and without a
\* leading zero limb
NormQuotient(qr) == [q |-> BigNorm(Reversed(qr.q)), r |-> qr.r]

\* quotient and remainder of a by d, for 0 < d < 2 * Base
BigDivSmall(a, d) == NormQuotient(BigDivSmallRange(a, d, 1, Len(a), 0))

RECURSIVE BitLenSmall(_)
BitLenSmall(n) == IF n = 0 THEN 0 ELSE 1 + BitLenSmall(n \div 2)

\* the number of bits of a
BitLen(a) ==
    IF a = <<>> THEN 0 ELSE LimbBits * (Len(a) - 1) + BitLenSmall(a[Len(a)])

\* a * 2^n
BigShl(a, n) == BigShiftLimbs(BigMulSmall(a, 2^(n % LimbBits)), n \div LimbBits)

\* a \div 2^n
BigShr(a, n) ==
    IF n \div LimbBits >= Len(a) THEN <<>>
    ELSE BigDivSmall(SubSeq(a, n \div LimbBits + 1, Len(a)), 2^(n % LimbBits)).q

\* bit i of a, bit 0 the least significant
BigBit(a, i) == (Limb(a, i \div LimbBits + 1) \div 2^(i % LimbBits)) % 2

\* a % 2^n # 0
LowBitsSet(a, n) ==
    \/ \E i \in 1..(n \div LimbBits) : Limb(a, i) # 0
    \/ Limb(a, n \div LimbBits + 1) % 2^(n % LimbBits) # 0

\* a number of decimal places near k / 2, a multiple of 4, for k > 4
HalfPlaces(k) == 4 * ((k \div 4 + 1) \div 2)

\* a * 10^k
RECURSIVE BigMulPow10(_, _)
BigMulPow10(a, k) ==
    IF k <= 4 THEN BigMulSmall(a, 10 ^ k)
    ELSE LET low == BigMulPow10(a, HalfPlaces(k))
         IN  IF low = <<>> THEN <<>> ELSE BigMulPow10(low, k - HalfPlaces(k))

\* the last k decimal digits of n < 10^k, most significant first
RECURSIVE LastDigits(_, _)
LastDigits(n, k) ==
    IF k = 0 THEN <<>> ELSE Append(LastDigits(n \div 10, k - 1), Digit(n % 10))

\* the quotient qr.q and the k decimal digits of the remainder qr.r
RestAndDigits(qr, k) == [rest |-> qr.q, digits |-> LastDigits(qr.r, k)]

\* the last k decimal digits of a, most significant first, and a \div 10^k;
\* the lower digits are computed before the higher ones
RECURSIVE BigLastDigits(_, _)
BigLastDigits(a, k) ==
    IF k <= 4 THEN RestAndDigits(BigDivSmall(a, 10 ^ k), k)
    ELSE LET low == BigLastDigits(a, HalfPlaces(k))
             high == BigLastDigits(low.rest, k - HalfPlaces(k))
         IN  IF low.digits = <<>> THEN low
             ELSE [rest |-> high.rest, digits |-> high.digits \o low.digits]

RECURSIVE StripZeros(_)
StripZeros(t) == IF Len(t) > 1 /\ Head(t) = "0" THEN StripZeros(Tail(t)) ELSE t

\* the decimal digits of a, most significant first ("0" for zero); a has
\* fewer than BitLen(a) \div 3 + 1 of them
BigDigits(a) ==
    StripZeros(BigLastDigits(a, (LimbBits * Len(a)) \div 3 + 1).digits)

-----------------------------------------------------------------------------
(* Python floats: IEEE 754 doubles.  A finite non-zero double is
   (-1)^neg * mant * 2^exp with 2^52 <= mant < 2^53, or mant < 2^52 and
   exp = -1074 for a subnormal one. *)

MantBits == 53
MinExp == -1074
MaxExp == 971

Float(cls, neg, mant, exp) == [cls |-> cls, neg |-> neg, mant |-> mant, exp |-> exp]

FZero(neg) == Float("zero", neg, <<>>, 0)
FInf(neg) == Float("inf", neg, <<>>, 0)
FNan == Float("nan", FALSE, <<>>, 0)

\* q, or q + 1 where the part cut off q, a half and a rest, rounds up: more
\* than a half does, and a half alone does if q is odd
Nearest(q, half, rest) ==
    IF half /\ (rest \/ Limb(q, 1) % 2 = 1) THEN BigAdd(q, <<1>>) ELSE q

\* (n + s) / 2^t rounded to the nearest integer, a tie going to the even
\* one, for t > 0; s, less than 1, is zero unless sticky
ShiftRound(n, t, sticky) ==
    Nearest(BigShr(n, t), BigBit(n, t - 1) = 1, LowBitsSet(n, t - 1) \/ sticky)

\* the float of sign neg, mantissa mant, of at most MantBits bits, and
\* exponent exp
Finite(neg, mant, exp) ==
    IF mant = <<>> THEN FZero(neg)
    ELSE IF exp > MaxExp THEN FInf(neg)
    ELSE Float("finite", neg, mant, exp)

\* the same for a mantissa that rounding may have carried to 2^MantBits
Carried(neg, m, exp) ==
    IF BitLen(m) > MantBits THEN Finite(neg, BigShr(m, 1), exp + 1)
    ELSE Finite(neg, m, exp)

\* the number of low bits of a mantissa of len bits at exponent e that a
\* double does not hold (negative: the bits to fill in)
DropBits(len, e) ==
    IF e + (len - MantBits) < MinExp THEN MinExp - e ELSE len - MantBits

\* the double nearest to (-1)^neg * (n + s) * 2^e for n # 0, drop bits of n
\* being cut off
RoundAt(neg, n, e, sticky, drop) ==
    IF drop <= 0
    THEN IF e + drop > MaxExp THEN FInf(neg)
         ELSE Float("finite", neg, BigShl(n, 0 - drop), e + drop)
    ELSE Carried(neg, ShiftRound(n, drop, sticky), e + drop)

\* the double nearest to (-1)^neg * (n + s) * 2^e, a tie going to the even
\* mantissa; s, less than 1, is zero unless sticky
FRound(neg, n, e, sticky) ==
    IF n = <<>> THEN FZero(neg)
    ELSE RoundAt(neg, n, e, sticky, DropBits(BitLen(n), e))

\* the quotient of qr; sticky remembers a remainder that was not zero
Remember(sticky, qr) == [q |-> qr.q, sticky |-> sticky \/ qr.r # 0]

\* x.q divided by d, for 0 < d < 2 * Base
DivSmall(x, d) == Remember(x.sticky, BigDivSmall(x.q, d))

\* x.q divided by 10^k
RECURSIVE DivPow10(_, _)
DivPow10(x, k) ==
    IF k <= 4 THEN DivSmall(x, 10 ^ k)
    ELSE LET high == DivPow10(x, HalfPlaces(k))
         IN  IF high.q = <<>> THEN high ELSE DivPow10(high, k - HalfPlaces(k))

\* the double nearest to (-1)^neg * x.q * 2^e, x.sticky telling of a
\* fraction beyond x.q
RoundSticky(neg, x, e) == FRound(neg, x.q, e, x.sticky)

\* the number of bits by which a d of len bits is shifted up before it is
\* divided by 10^k, so that the quotient has more than 64 bits
GuardBits(len, k) == IF 64 + 4 * k > len THEN 64 + 4 * k - len ELSE 0

\* the double nearest to (-1)^neg * d / 10^k, computed from d * 2^s
DivideRound(neg, d, k, s) ==
    RoundSticky(neg, DivPow10([q |-> BigShl(d, s), sticky |-> FALSE], k), 0 - s)

\* the double nearest to (-1)^neg * d * 10^k: what float() makes of a
\* decimal literal
FromDecimal(neg, d, k) ==
    IF d = <<>> THEN FZero(neg)
    ELSE IF k >= 0
    THEN IF k > MaxExp \/ BitLen(d) - 1 + 3 * k >= MaxExp + MantBits THEN FInf(neg)
         ELSE FRound(neg, BigMulPow10(d, k), 0, FALSE)
    ELSE IF 0 - k > BitLen(d) - MinExp \/ BitLen(d) + 3 * k < MinExp THEN FZero(neg)
    ELSE DivideRound(neg, d, 0 - k, GuardBits(BitLen(d), 0 - k))

\* the double nearest to n / d for integers n and 0 < d < Base: int / int
FromRatio(n, d) ==
    IF n = 0 THEN FZero(FALSE)
    ELSE RoundSticky(n < 0,
                     DivSmall([q |-> BigShl(BigOfNat(IF n < 0 THEN 0 - n ELSE n),
                                            5 * LimbBits),
                               sticky |-> FALSE], d), 0 - 5 * LimbBits)

\* float(n) of an integer n
FromInt(n) == FRound(n < 0, BigOfNat(IF n < 0 THEN 0 - n ELSE n), 0, FALSE)

FNeg(x) == IF x.cls = "nan" THEN x ELSE [x EXCEPT !.neg = ~x.neg]

\* -1, 0, 1 as |x| < |y|, |x| = |y|, |x| > |y|, for finite non-zero x, y
MagCmp(x, y) ==
    IF x.exp + BitLen(x.mant) # y.exp + BitLen(y.mant)
    THEN (IF x.exp + BitLen(x.mant) < y.exp + BitLen(y.mant) THEN -1 ELSE 1)
    ELSE IF x.exp >= y.exp
    THEN BigCmp(BigShl(x.mant, x.exp - y.exp), y.mant)
    ELSE BigCmp(x.mant, BigShl(y.mant, y.exp - x.exp))

\* where x stands among the floats by sign and class: -2 and 2 the
\* infinities, 0 the zeros
Rank(x) ==
    IF x.cls = "zero" THEN 0
    ELSE IF x.cls = "inf" THEN (IF x.neg THEN -2 ELSE 2)
    ELSE IF x.neg THEN -1 ELSE 1

\* -1, 0, 1 as x < y, x == y, x > y, for x and y not nan
FCmp(x, y) ==
    IF Rank(x) # Rank(y) THEN (IF Rank(x) < Rank(y) THEN -1 ELSE 1)
    ELSE IF x.cls # "finite" THEN 0
    ELSE (IF x.neg THEN -1 ELSE 1) * MagCmp(x, y)

IsNan(x) == x.cls = "nan"

\* x < y, x <= y, x >= y, x > y, x == y of Python
FLt(x, y) == ~IsNan(x) /\ ~IsNan(y) /\ FCmp(x, y) < 0
FLe(x, y) == ~IsNan(x) /\ ~IsNan(y) /\ FCmp(x, y) <= 0
FGe(x, y) == ~IsNan(x) /\ ~IsNan(y) /\ FCmp(x, y) >= 0
FGt(x, y) == ~IsNan(x) /\ ~IsNan(y) /\ FCmp(x, y) > 0

\* max(x, y) of Python: x unless y > x
FMax(x, y) == IF FGt(y, x) THEN y ELSE x

\* x * y
FMul(x, y) ==
    LET neg == x.neg # y.neg
    IN  IF IsNan(x) \/ IsNan(y) THEN FNan
        ELSE IF x.cls = "inf" \/ y.cls = "inf"
        THEN IF x.cls = "zero" \/ y.cls = "zero" THEN FNan ELSE FInf(neg)
        ELSE IF x.cls = "zero" \/ y.cls = "zero" THEN FZero(neg)
        ELSE FRound(neg, BigMul(x.mant, y.mant), x.exp + y.exp, FALSE)

\* sign and magnitude of (-1)^xneg * xm + (-1)^yneg * ym; a sum that is
\* zero is +0
SignedSum(xneg, xm, yneg, ym) ==
    IF xneg = yneg THEN [neg |-> xneg, n |-> BigAdd(xm, ym)]
    ELSE IF BigCmp(xm, ym) = 0 THEN [neg |-> FALSE, n |-> <<>>]
    ELSE IF BigCmp(xm, ym) > 0 THEN [neg |-> xneg, n |-> BigSub(xm, ym)]
    ELSE [neg |-> yneg, n |-> BigSub(ym, xm)]

\* the double nearest to (-1)^s.neg * s.n * 2^e
RoundSigned(s, e) == FRound(s.neg, s.n, e, FALSE)

\* (-1)^xneg * xmant * 2^xexp + (-1)^yneg * ym * 2^ye for xexp >= ye
AddAt(xneg, xmant, xexp, yneg, ym, ye) ==
    RoundSigned(SignedSum(xneg, BigShl(xmant, xexp - ye), yneg, ym), ye)

\* x + y for finite non-zero x and y, the exponent of x not below that of
\* y; a y further than 8 limbs below x counts as one unit 8 limbs below
AddAligned(x, y) ==
    AddAt(x.neg, x.mant, x.exp, y.neg,
          IF x.exp - y.exp > 8 * LimbBits THEN <<1>> ELSE y.mant,
          IF x.exp - y.exp > 8 * LimbBits THEN x.exp - 8 * LimbBits ELSE y.exp)

\* x + y
FAdd(x, y) ==
    IF IsNan(x) \/ IsNan(y) THEN FNan
    ELSE IF x.cls = "inf"
    THEN IF y.cls = "inf" /\ x.neg # y.neg THEN FNan ELSE x
    ELSE IF y.cls = "inf" THEN y
    ELSE IF x.cls = "zero"
    THEN IF y.cls = "zero" THEN FZero(x.neg /\ y.neg) ELSE y
    ELSE IF y.cls = "zero" THEN x
    ELSE AddAligned(IF x.exp >= y.exp THEN x ELSE y, IF x.exp >= y.exp THEN y ELSE x)

\* x - y
FSub(x, y) == FAdd(x, FNeg(y))

\* n * 2^e rounded to the nearest integer, a tie going to the even one
ScaleRound(n, e) ==
    IF e >= 0 THEN BigShl(n, e) ELSE ShiftRound(n, 0 - e, FALSE)

\* |x| * 100 rounded to the nearest integer, a tie going to the even one,
\* for finite x: the digits of x to two decimals
Hundredths(x) ==
    IF x.cls = "zero" THEN <<>> ELSE ScaleRound(BigMulSmall(x.mant, 100), x.exp)

\* round(x, 2)
Round2(x) ==
    IF x.cls # "finite" \/ x.exp >= 0 THEN x
    ELSE FromDecimal(x.neg, Hundredths(x), -2)

\* the digits d with zeros put before them where they are fewer than 3
AtLeast3(d) ==
    IF Len(d) < 3 THEN SubSeq(<<"0", "0">>, 1, 3 - Len(d)) \o d ELSE d

\* the digits p with a point before the last two
PointBeforeLast2(p) ==
    SubSeq(p, 1, Len(p) - 2) \o <<".">> \o SubSeq(p, Len(p) - 1, Len(p))

\* f"{x:.2f}"
Format2f(x) ==
    IF x.cls = "nan" THEN <<"n", "a", "n">>
    ELSE (IF x.neg THEN <<"-">> ELSE <<>>)
         \o (IF x.cls = "inf" THEN <<"i", "n", "f">>
             ELSE PointBeforeLast2(AtLeast3(BigDigits(Hundredths(x)))))

\* the double of a decimal literal with two decimals, c hundredths
Cents(c) == FromDecimal(c < 0, BigOfNat(IF c < 0 THEN 0 - c ELSE c), -2)

\* the double of a whole number of dollars
Dollars(d) == FromInt(d)

\* truthiness of a float: neither 0.0 nor -0.0
FTruthy(x) == x.cls # "zero"

-----------------------------------------------------------------------------
(* Python's int: an integer of any size, held as its sign and its
   magnitude, a natural number in limbs; zero has no sign. *)

\* the int of sign neg and magnitude mag
MakeInt(neg, mag) == [neg |-> neg /\ mag # <<>>, mag |-> mag]

\* the int n
PyInt(n) == MakeInt(n < 0, BigOfNat(IF n < 0 THEN 0 - n ELSE n))

\* the int of a sum as SignedSum gives it
IntOfSum(s) == MakeInt(s.neg, s.n)

\* a - b
IntSub(a, b) == IntOfSum(SignedSum(a.neg, a.mag, ~b.neg, b.mag))

\* -1, 0, 1 as a < b, a = b, a > b
IntCmp(a, b) ==
    IF a.neg # b.neg THEN (IF a.neg THEN -1 ELSE 1)
    ELSE (IF a.neg THEN -1 ELSE 1) * BigCmp(a.mag, b.mag)

\* a <= b
IntLe(a, b) == IntCmp(a, b) <= 0

\* min(a, b)
IntMin(a, b) == IF IntLe(a, b) THEN a ELSE b

\* the int a, of at most two limbs, as a number of the model
SmallInt(a) == (IF a.neg THEN -1 ELSE 1) * (Limb(a.mag, 1) + Base * Limb(a.mag, 2))

\* the double nearest to the int a, an infinity beyond the doubles
FloatOfInt(a) == FRound(a.neg, a.mag, 0, FALSE)

-----------------------------------------------------------------------------
(* offers.py *)

\* the float literals 0.9, 0.95 and 0.90 and the int literal 150, which
\* Python converts to 150.0 where it meets a float
FloorFactor == Cents(90)
FloorDiscount == Dollars(150)
AcceptFactor == Cents(95)
DefaultCounterFactor == Cents(90)

\* Faulty variant: the table in the opposite order.
counter_multipliers_Reversed == <<Cents(87), Cents(89), Cents(92)>>

\* counter_multipliers = [0.92, 0.89, 0.87]
counter_multipliers == <<Cents(92), Cents(89), Cents(87)>>

\* Python list indexing: 0-based, a negative index counts from the end,
\* anything outside -len .. len-1 raises IndexError.
IndexInRange(list, i) ==
    IntLe(PyInt(0 - Len(list)), i) /\ IntLe(i, PyInt(Len(list) - 1))

\* list[i] for an index in range
ListItem(list, i) ==
    IF ~i.neg THEN list[SmallInt(i) + 1] ELSE list[Len(list) + SmallInt(i) + 1]

\* db.query(Load).filter(Load.load_id == load_id).first()
RECURSIVE FirstWithId(_, _)
FirstWithId(db, load_id) ==
    IF db = <<>> THEN None
    ELSE IF Head(db).load_id = load_id THEN Some(Head(db))
    ELSE FirstWithId(Tail(db), load_id)

\* Faulty variant: the lower of the two terms.
floor_price_Min(loadboard_rate) ==
    LET percent == FMul(loadboard_rate, FloorFactor)
        flat == FSub(loadboard_rate, FloorDiscount)
    IN  IF FLt(flat, percent) THEN flat ELSE percent

\* floor_price = max(loadboard_rate * 0.9, loadboard_rate - 150)
floor_price(loadboard_rate) ==
    FMax(FMul(loadboard_rate, FloorFactor), FSub(loadboard_rate, FloorDiscount))

\* Faulty variant: the negotiated rate is ignored.
carrier_offer_InitialOnly(initial_rate, negotiated_rate) == initial_rate

\* Faulty variant: "if negotiated_rate" instead of "is not None", so that a
\* negotiated rate of 0.0 counts as absent.
carrier_offer_Truthy(initial_rate, negotiated_rate) ==
    IF ~IsNone(negotiated_rate) /\ FTruthy(Val(negotiated_rate))
    THEN Val(negotiated_rate)
    ELSE initial_rate

\* carrier_offer = negotiated_rate if negotiated_rate is not None else initial_rate
carrier_offer(initial_rate, negotiated_rate) ==
    IF ~IsNone(negotiated_rate) THEN Val(negotiated_rate) ELSE initial_rate

\* the Decision that counters at counter_offer
Counter(counter_offer, floor) ==
    [decision |-> "counter",
     rate |-> Some(Round2(counter_offer)),
     floor |-> floor,
     reason |-> <<"Counter offer: $">> \o Format2f(counter_offer)]

\* the counter made with counter_multipliers[index]
CounterAt(loadboard_rate, floor, index) ==
    IF ~IndexInRange(counter_multipliers, index)
    THEN [exception |-> "IndexError"]
    ELSE Counter(FMax(FMul(loadboard_rate, ListItem(counter_multipliers, index)),
                      floor),
                 floor)

\* the branch taken when negotiation_rounds is not None and <= 3; floor is
\* the value of floor_price
RoundCounter(loadboard_rate, floor, negotiation_rounds) ==
    CounterAt(loadboard_rate, floor,
              IntMin(IntSub(negotiation_rounds, PyInt(1)), PyInt(2)))

\* Faulty variant: the default counter uses the first round's multiplier.
DefaultCounter_RoundOne(loadboard_rate, floor) ==
    Counter(FMax(FMul(loadboard_rate, counter_multipliers[1]), floor), floor)

\* the last branch: "Default counter offer"
DefaultCounter(loadboard_rate, floor) ==
    Counter(FMax(FMul(loadboard_rate, DefaultCounterFactor), floor), floor)

\* Faulty variant: an offer equal to the floor is rejected too.
BelowFloor_Inclusive(offer, floor) == FLe(offer, floor)

\* if carrier_offer < floor_price
BelowFloor(offer, floor) == FLt(offer, floor)

\* Faulty variant: an offer equal to the threshold is not accepted.
Acceptable_Strict(offer, loadboard_rate) ==
    FGt(offer, FMul(loadboard_rate, AcceptFactor))

\* if carrier_offer >= loadboard_rate * 0.95
Acceptable(offer, loadboard_rate) ==
    FGe(offer, FMul(loadboard_rate, AcceptFactor))

\* Faulty variant: a missing load raises instead of being answered.
LoadNotFound_Raises == [exception |-> "LookupError"]

\* the Decision returned when no load has the given id; its floor is the
\* int 0, which Python holds equal to 0.0
LoadNotFound ==
    [decision |-> "reject", rate |-> None, floor |-> FZero(FALSE),
     reason |-> <<"Load not found">>]

\* the Decision for a load that was found, from its floor price and the
\* carrier's offer
Decide(loadboard_rate, floor, offer, negotiation_rounds) ==
    IF BelowFloor(offer, floor)
    THEN [decision |-> "reject", rate |-> None, floor |-> floor,
          reason |-> <<"Offer below minimum floor price of $">> \o Format2f(floor)]
    ELSE IF Acceptable(offer, loadboard_rate)
    THEN [decision |-> "accept", rate |-> Some(offer), floor |-> floor,
          reason |-> <<"Offer accepted">>]
    ELSE IF ~IsNone(negotiation_rounds) /\ IntLe(Val(negotiation_rounds), PyInt(3))
    THEN RoundCounter(loadboard_rate, floor, Val(negotiation_rounds))
    ELSE DefaultCounter(loadboard_rate, floor)

\* the Decision for what the query for the load came to
DecideFor(load, offer, negotiation_rounds) ==
    IF IsNone(load) THEN LoadNotFound
    ELSE Decide(Val(load).loadboard_rate, floor_price(Val(load).loadboard_rate),
                offer, negotiation_rounds)

evaluate_offer(db, load_id, initial_rate, negotiated_rate, negotiation_rounds) ==
    DecideFor(FirstWithId(db, load_id),
              carrier_offer(initial_rate, negotiated_rate), negotiation_rounds)

-----------------------------------------------------------------------------
(* Text *)

UpperCase == <<"A", "B", "C", "D", "E", "F", "G", "H", "I", "J", "K", "L", "M",
               "N", "O", "P", "Q", "R", "S", "T", "U", "V", "W", "X", "Y", "Z">>
LowerCase == <<"a", "b", "c", "d", "e", "f", "g", "h", "i", "j", "k", "l", "m",
               "n", "o", "p", "q", "r", "s", "t", "u", "v", "w", "x", "y", "z">>

\* The characters of the model's texts, those of Latin-1 from U+0001 to
\* U+00FF without the grave accent, in code point order.
CodePoints ==
    <<"", "", "", "", "", "", "", "", "\t", "\n", "", "\f", "\r",
      "", "", "", "", "", "", "", "", "", "", "", "", "", "",
      "", "", "", "", " ", "!", "\"", "#", "$", "%", "&", "'", "(", ")",
      "*", "+", ",", "-", ".", "/", "0", "1", "2", "3", "4", "5", "6", "7",
      "8", "9", ":", ";", "<", "=", ">", "?", "@", "A", "B", "C", "D", "E",
      "F", "G", "H", "I", "J", "K", "L", "M", "N", "O", "P", "Q", "R", "S",
      "T", "U", "V", "W", "X", "Y", "Z", "[", "\\", "]", "^", "_", "a", "b",
      "c", "d", "e", "f", "g", "h", "i", "j", "k", "l", "m", "n", "o", "p",
      "q", "r", "s", "t", "u", "v", "w", "x", "y", "z", "{", "|", "}", "~",
      "", "", "", "", "", "", "", "", "", "", "", "", "", "",
      "", "", "", "", "", "", "", "", "", "", "", "", "", "",
      "", "", "", "", "", " ", "¡", "¢", "£", "¤", "¥", "¦", "§", "¨",
      "©", "ª", "«", "¬", "­", "®", "¯", "°", "±", "²", "³", "´", "µ", "¶",
      "·", "¸", "¹", "º", "»", "¼", "½", "¾", "¿", "À", "Á", "Â", "Ã", "Ä",
      "Å", "Æ", "Ç", "È", "É", "Ê", "Ë", "Ì", "Í", "Î", "Ï", "Ð", "Ñ", "Ò",
      "Ó", "Ô", "Õ", "Ö", "×", "Ø", "Ù", "Ú", "Û", "Ü", "Ý", "Þ", "ß", "à",
      "á", "â", "ã", "ä", "å", "æ", "ç", "è", "é", "ê", "ë", "ì", "í", "î",
      "ï", "ð", "ñ", "ò", "ó", "ô", "õ", "ö", "÷", "ø", "ù", "ú", "û", "ü",
      "ý", "þ", "ÿ">>

\* the place of a character in that order
Ord(c) == CHOOSE i \in 1..Len(CodePoints) : CodePoints[i] = c

\* the code point of a character: the grave accent, U+0060, is left out of
\* CodePoints
CodePoint(c) == IF Ord(c) < 96 THEN Ord(c) ELSE Ord(c) + 1

\* str.isprintable() of a character of Latin-1: not a control character,
\* not the no-break space, not the soft hyphen
IsPrintable(c) ==
    LET n == CodePoint(c)
    IN  n >= 32 /\ n # 127 /\ n \notin 128..160 /\ n # 173

HexDigits ==
    <<"0", "1", "2", "3", "4", "5", "6", "7", "8", "9", "a", "b", "c", "d", "e", "f">>

\* what repr() writes for the character c of a str put between quotes of
\* the kind quote
ReprChar(c, quote) ==
    IF c = quote \/ c = "\\" THEN <<"\\", c>>
    ELSE IF c = "\t" THEN <<"\\", "t">>
    ELSE IF c = "\n" THEN <<"\\", "n">>
    ELSE IF c = "\r" THEN <<"\\", "r">>
    ELSE IF ~IsPrintable(c)
    THEN <<"\\", "x", HexDigits[(CodePoint(c) \div 16) + 1],
           HexDigits[(CodePoint(c) % 16) + 1]>>
    ELSE <<c>>

RECURSIVE ReprChars(_, _)
ReprChars(s, quote) ==
    IF s = <<>> THEN <<>>
    ELSE ReprChar(Head(s), quote) \o ReprChars(Tail(s), quote)

\* repr(s) of a str: between double quotes if s holds a single quote and no
\* double quote, else between single quotes
StrRepr(s) ==
    LET quote == IF /\ \E i \in 1..Len(s) : s[i] = "'"
                    /\ ~\E i \in 1..Len(s) : s[i] = "\""
                 THEN "\"" ELSE "'"
    IN  <<quote>> \o ReprChars(s, quote) \o <<quote>>

\* The letters of Latin-1 beyond ASCII that have a lower case of their own,
\* U+00C0 to U+00DE without the multiplication sign, and their lower cases,
\* U+00E0 to U+00FE.  The texts of the model are texts of Latin-1.
UpperLatin1 == <<"À", "Á", "Â", "Ã", "Ä", "Å", "Æ", "Ç", "È", "É", "Ê", "Ë", "Ì",
               "Í", "Î", "Ï", "Ð", "Ñ", "Ò", "Ó", "Ô", "Õ", "Ö", "Ø", "Ù", "Ú",
               "Û", "Ü", "Ý", "Þ">>
LowerLatin1 == <<"à", "á", "â", "ã", "ä", "å", "æ", "ç", "è", "é", "ê", "ë", "ì",
               "í", "î", "ï", "ð", "ñ", "ò", "ó", "ô", "õ", "ö", "ø", "ù", "ú",
               "û", "ü", "ý", "þ">>

\* one character in lower case, the letters being those of upper and lower
FoldChar(c, upper, lower) ==
    IF \E i \in 1..Len(upper) : upper[i] = c
    THEN lower[CHOOSE i \in 1..Len(upper) : upper[i] = c]
    ELSE c

\* the letters that have a lower case of their own, and their lower cases
Uppers == UpperCase \o UpperLatin1
Lowers == LowerCase \o LowerLatin1

\* str.lower(), one character
LowerChar(c) == FoldChar(c, Uppers, Lowers)

\* str.lower()
Lower(s) == [i \in 1..Len(s) |-> LowerChar(s[i])]

\* Python's "needle in hay"
Contains(needle, hay) ==
    \E i \in 0..(Len(hay) - Len(needle)) :
        SubSeq(hay, i + 1, i + Len(needle)) = needle

\* a <= b for texts in the database, character by character in code point
\* order; timestamps written alike, and a date and a timestamp that begins
\* with it, compare so under every collation
RECURSIVE StrLe(_, _)
StrLe(a, b) ==
    IF a = <<>> THEN TRUE
    ELSE IF b = <<>> THEN FALSE
    ELSE IF Head(a) = Head(b) THEN StrLe(Tail(a), Tail(b))
    ELSE Ord(Head(a)) < Ord(Head(b))

\* The settings of lc_ctype a PostgreSQL database is created with: under
\* "C" lower() changes the letters A to Z alone, under a locale of the
\* language of the texts it changes every letter.
LcCtypes == {"C", "en_US.UTF-8"}

\* lower(t) of PostgreSQL in a database whose lc_ctype is the one given
LowerIn(t, lc_ctype) ==
    IF lc_ctype = "C"
    THEN [i \in 1..Len(t) |-> FoldChar(t[i], UpperCase, LowerCase)]
    ELSE [i \in 1..Len(t) |-> FoldChar(t[i], Uppers, Lowers)]

\* MatchText of PostgreSQL's LIKE, t being the text and p the pattern: %
\* matches any run of characters, _ any one character, the character behind
\* a backslash itself, every other character itself.  A pattern that ends
\* with a backslash is an error, raised when the match comes to it.
RECURSIVE MatchText(_, _)
RECURSIVE MatchScan(_, _, _)
MatchScan(t, p, firstpat) ==
    IF t = <<>> THEN "LIKE_ABORT"
    ELSE IF Head(t) = firstpat /\ MatchText(t, p) # "LIKE_FALSE"
    THEN MatchText(t, p)
    ELSE MatchScan(Tail(t), p, firstpat)

\* the pattern behind a %: further wildcards are taken, then the text is
\* searched for a place where the rest of the pattern matches
RECURSIVE MatchPercent(_, _)
MatchPercent(t, p) ==
    IF p = <<>> THEN "LIKE_TRUE"
    ELSE IF Head(p) = "%" THEN MatchPercent(t, Tail(p))
    ELSE IF Head(p) = "_"
    THEN IF t = <<>> THEN "LIKE_ABORT" ELSE MatchPercent(Tail(t), Tail(p))
    ELSE IF Head(p) = "\\" /\ Len(p) < 2 THEN "ERROR"
    ELSE MatchScan(t, p, IF Head(p) = "\\" THEN p[2] ELSE Head(p))

MatchText(t, p) ==
    IF p = <<"%">> THEN "LIKE_TRUE"
    ELSE IF t # <<>> /\ p # <<>>
    THEN IF Head(p) = "\\"
         THEN IF Len(p) = 1 THEN "ERROR"
              ELSE IF p[2] # Head(t) THEN "LIKE_FALSE"
              ELSE MatchText(Tail(t), Tail(Tail(p)))
         ELSE IF Head(p) = "%" THEN MatchPercent(t, Tail(p))
         ELSE IF Head(p) = "_" THEN MatchText(Tail(t), Tail(p))
         ELSE IF Head(p) # Head(t) THEN "LIKE_FALSE"
         ELSE MatchText(Tail(t), Tail(p))
    ELSE IF t # <<>> THEN "LIKE_FALSE"
    ELSE IF \A i \in 1..Len(p) : p[i] = "%" THEN "LIKE_TRUE"
    ELSE "LIKE_ABORT"

\* SQL "s ILIKE pattern" of PostgreSQL, whose escape character is the
\* backslash: the text and the pattern are put in lower case, as the
\* database's lc_ctype has it, and matched.  The row matches if the outcome
\* is LIKE_TRUE; with ERROR the query fails ("LIKE pattern must not end with
\* escape character").
ILike(s, pattern, lc_ctype) ==
    MatchText(LowerIn(s, lc_ctype), LowerIn(pattern, lc_ctype))

\* s ILIKE '%criterion%', as search_loads builds the pattern; it ends with
\* %, not with the escape character, and the outcome is never ERROR
ILikeContains(s, criterion, lc_ctype) ==
    ILike(s, <<"%">> \o criterion \o <<"%">>, lc_ctype) = "LIKE_TRUE"

\* Python truthiness of an Optional[str]: neither None nor ""
Truthy(o) == ~IsNone(o) /\ Val(o) # <<>>

-----------------------------------------------------------------------------
(* loads.py *)

EquipmentExactScore == 100
EquipmentPartialScore == 50
OriginScore == 30
DestinationScore == 30
BaseScore == 10

\* Faulty variant: the exact equipment match compares without lower().
calculate_match_score_CaseSensitive(load, origin, destination, equipment_type) ==
    LET equipment ==
            IF Truthy(equipment_type) /\ load.equipment_type = Val(equipment_type)
            THEN EquipmentExactScore
            ELSE IF Truthy(equipment_type)
                    /\ Contains(Lower(Val(equipment_type)), Lower(load.equipment_type))
            THEN EquipmentPartialScore
            ELSE 0
        org == IF Truthy(origin) /\ Contains(Lower(Val(origin)), Lower(load.origin))
               THEN OriginScore ELSE 0
        dst == IF Truthy(destination)
                  /\ Contains(Lower(Val(destination)), Lower(load.destination))
               THEN DestinationScore ELSE 0
    IN  0 + equipment + org + dst + BaseScore

calculate_match_score(load, origin, destination, equipment_type) ==
    LET equipment ==
            IF Truthy(equipment_type)
               /\ Lower(load.equipment_type) = Lower(Val(equipment_type))
            THEN EquipmentExactScore
            ELSE IF Truthy(equipment_type)
                    /\ Contains(Lower(Val(equipment_type)), Lower(load.equipment_type))
            THEN EquipmentPartialScore
            ELSE 0
        org == IF Truthy(origin) /\ Contains(Lower(Val(origin)), Lower(load.origin))
               THEN OriginScore ELSE 0
        dst == IF Truthy(destination)
                  /\ Contains(Lower(Val(destination)), Lower(load.destination))
               THEN DestinationScore ELSE 0
    IN  0 + equipment + org + dst + BaseScore

\* Faulty variant: the status is not looked at.
QueryFilter_AnyStatus(load, origin, destination, equipment_type, pickup_from, pickup_to, lc_ctype) ==
    /\ Truthy(origin) => ILikeContains(load.origin, Val(origin), lc_ctype)
    /\ Truthy(destination) =>
           ILikeContains(load.destination, Val(destination), lc_ctype)
    /\ Truthy(equipment_type) =>
           ILikeContains(load.equipment_type, Val(equipment_type), lc_ctype)
    /\ Truthy(pickup_from) => StrLe(Val(pickup_from), load.pickup_datetime)
    /\ Truthy(pickup_to) => StrLe(load.pickup_datetime, Val(pickup_to))

\* the WHERE clause search_loads builds, in a database whose lc_ctype is the
\* one given; the texts are compared in the order of their code points
QueryFilter(load, origin, destination, equipment_type, pickup_from, pickup_to, lc_ctype) ==
    /\ load.status = "available"
    /\ Truthy(origin) => ILikeContains(load.origin, Val(origin), lc_ctype)
    /\ Truthy(destination) =>
           ILikeContains(load.destination, Val(destination), lc_ctype)
    /\ Truthy(equipment_type) =>
           ILikeContains(load.equipment_type, Val(equipment_type), lc_ctype)
    /\ Truthy(pickup_from) => StrLe(Val(pickup_from), load.pickup_datetime)
    /\ Truthy(pickup_to) => StrLe(load.pickup_datetime, Val(pickup_to))

\* query.filter(...): the rows that satisfy the WHERE clause.  They are
\* listed here as the table holds them; the query itself gives them no order.
RECURSIVE FilterRows(_, _, _, _, _, _, _)
FilterRows(db, origin, destination, equipment_type, pickup_from, pickup_to, lc_ctype) ==
    IF db = <<>> THEN <<>>
    ELSE LET rest == FilterRows(Tail(db), origin, destination, equipment_type,
                                pickup_from, pickup_to, lc_ctype)
         IN  IF QueryFilter(Head(db), origin, destination, equipment_type,
                            pickup_from, pickup_to, lc_ctype)
             THEN <<Head(db)>> \o rest
             ELSE rest

\* the ways to pick k of m rows, one after the other
Picks(k, m) == { f \in [1..k -> 1..m] : \A i, j \in 1..k : i # j => f[i] # f[j] }

\* query.limit(n).all(), n >= 0, on a query that matches rows.  The query
\* has no ORDER BY: the database returns the rows in an order of its own
\* and, when more than n match, the n rows of its choice.
Limit(rows, n) ==
    LET k == Min(n, Len(rows))
    IN  IF k = 0 THEN { <<>> }
        ELSE { [i \in 1..k |-> rows[f[i]]] : f \in Picks(k, Len(rows)) }

\* loads = query.limit(max_results * 2).all(): what the statement can come
\* to on the table db of a database whose lc_ctype is the one given, the
\* rows fetched or the error of a negative LIMIT
QueryLimitAll(db, lc_ctype, origin, destination, equipment_type, pickup_from, pickup_to, max_results) ==
    IF max_results * 2 < 0
    THEN { [exception |-> "LIMIT must not be negative"] }
    ELSE { [rows |-> rows] :
             rows \in Limit(FilterRows(db, origin, destination, equipment_type,
                                       pickup_from, pickup_to, lc_ctype),
                            max_results * 2) }

\* LoadSearchResponse(..., score=score)
LoadSearchResponse(load, score) ==
    [load_id |-> load.load_id,
     origin |-> load.origin,
     destination |-> load.destination,
     pickup_datetime |-> load.pickup_datetime,
     equipment_type |-> load.equipment_type,
     loadboard_rate |-> load.loadboard_rate,
     score |-> score]

\* the loop over the fetched rows: keep those with a positive score
RECURSIVE ScoreRows(_, _, _, _)
ScoreRows(rows, origin, destination, equipment_type) ==
    IF rows = <<>> THEN <<>>
    ELSE LET score == calculate_match_score(Head(rows), origin, destination,
                                            equipment_type)
             rest == ScoreRows(Tail(rows), origin, destination, equipment_type)
         IN  IF score > 0
             THEN <<LoadSearchResponse(Head(rows), score)>> \o rest
             ELSE rest

\* Faulty variant: x goes before the elements of equal score, so that ties
\* come out in the opposite order.
RECURSIVE InsertByScore_Unstable(_, _)
InsertByScore_Unstable(sorted, x) ==
    IF sorted = <<>> THEN <<x>>
    ELSE IF Head(sorted).score > x.score
    THEN <<Head(sorted)>> \o InsertByScore_Unstable(Tail(sorted), x)
    ELSE <<x>> \o sorted

\* one insertion of list.sort(key=score, reverse=True): x goes behind every
\* element whose score is not smaller (the sort is stable)
RECURSIVE InsertByScore(_, _)
InsertByScore(sorted, x) ==
    IF sorted = <<>> THEN <<x>>
    ELSE IF Head(sorted).score >= x.score
    THEN <<Head(sorted)>> \o InsertByScore(Tail(sorted), x)
    ELSE <<x>> \o sorted

\* results.sort(key=lambda x: x.score, reverse=True)
RECURSIVE SortByScoreDesc(_)
SortByScoreDesc(results) ==
    IF results = <<>> THEN <<>>
    ELSE InsertByScore(SortByScoreDesc(SubSeq(results, 1, Len(results) - 1)),
                       results[Len(results)])

\* search_loads after its query, fetched being what the query came to: the
\* error goes on to the caller; the rows are scored, sorted and cut to
\* max_results
RankedResults(fetched, origin, destination, equipment_type, max_results) ==
    IF "exception" \in DOMAIN fetched
    THEN fetched
    ELSE LET results == SortByScoreDesc(
                            ScoreRows(fetched.rows, origin, destination,
                                      equipment_type))
         IN  [results |-> SubSeq(results, 1, Min(max_results, Len(results)))]

\* search_loads on the table db of a database whose lc_ctype is the one
\* given: every outcome the call can have, one for each thing its query can
\* come to
search_loads(db, lc_ctype, origin, destination, equipment_type, pickup_from, pickup_to, max_results) ==
    { RankedResults(fetched, origin, destination, equipment_type, max_results) :
          fetched \in QueryLimitAll(db, lc_ctype, origin, destination,
                                    equipment_type, pickup_from, pickup_to,
                                    max_results) }

-----------------------------------------------------------------------------
(* fmcsa.py: the carrier eligibility check.  A JSON value is a record whose
   field json names its kind; an object holds its members as a sequence of
   <<key, value>> pairs; the numbers are integers. *)

JNull == [json |-> "null"]
JString(s) == [json |-> "string", value |-> s]
JNumber(n) == [json |-> "number", value |-> n]
JBool(b) == [json |-> "boolean", value |-> b]
JArray(items) == [json |-> "array", items |-> items]
JObject(members) == [json |-> "object", members |-> members]

\* bool(v) of a decoded JSON value
JTruthy(v) ==
    CASE v.json = "null" -> FALSE
      [] v.json = "string" -> v.value # ""
      [] v.json = "number" -> v.value # 0
      [] v.json = "boolean" -> v.value
      [] v.json = "array" -> v.items # <<>>
      [] v.json = "object" -> v.members # <<>>

\* v has a method get: v is a dict
HasGet(v) == v.json = "object"

\* dict.get(key, default)
DictGet(v, key, default) ==
    IF \E i \in 1..Len(v.members) : v.members[i][1] = key
    THEN v.members[CHOOSE i \in 1..Len(v.members) : v.members[i][1] = key][2]
    ELSE default

\* the result dict of verify_carrier
Verification(eligible, legalName, status, riskNotes) ==
    [eligible |-> eligible, legalName |-> legalName, status |-> status,
     riskNotes |-> riskNotes]

fallback_verification ==
    Verification(FALSE, JNull, "error",
                 <<"Carrier verification unavailable - please try again later">>)

\* the except clause of _parse_fmcsa_response
ParseError ==
    Verification(FALSE, JNull, "error", <<"Error processing carrier data">>)

\* the body of the try block of _parse_fmcsa_response, for a dict carrier_data
ParseCarrier(carrier_data) ==
    LET legal_name == DictGet(carrier_data, "legalName", JNull)
        allow_to_operate ==
            DictGet(carrier_data, "allowedToOperate", JNull) = JString("Y")
        out_of_service == DictGet(carrier_data, "oosDate", JNull) # JNull
        eligible == allow_to_operate /\ ~out_of_service
        risk_notes ==
            (IF ~allow_to_operate THEN <<"Not allowed to operate">> ELSE <<>>)
            \o (IF out_of_service THEN <<"Out of service">> ELSE <<>>)
    IN  Verification(eligible, legal_name,
                     IF eligible THEN "active" ELSE "inactive", risk_notes)

parse_fmcsa_response(data) ==
    IF ~HasGet(data) THEN ParseError
    ELSE LET content == DictGet(data, "content", JArray(<<>>))
         IN  IF ~JTruthy(content)
             THEN Verification(FALSE, JNull, "not_found", <<"No carrier data found">>)
             ELSE IF content.json # "array" THEN ParseError
             ELSE IF ~HasGet(content.items[1]) THEN ParseError
             ELSE LET carrier_data ==
                          DictGet(content.items[1], "carrier", JObject(<<>>))
                  IN  IF ~HasGet(carrier_data) THEN ParseError
                      ELSE ParseCarrier(carrier_data)

\* the decimal digits of Latin-1
DecimalDigits == {"0", "1", "2", "3", "4", "5", "6", "7", "8", "9"}

\* str.isdecimal(), one character
IsDecimal(c) == c \in DecimalDigits

\* str.isdigit(), one character: the decimal digits and the superscripts
\* two, three and one
IsDigit(c) == c \in DecimalDigits \cup {"²", "³", "¹"}

\* "".join(filter(str.isdigit, mc_number))
RECURSIVE mc_digits(_)
mc_digits(mc_number) ==
    IF mc_number = <<>> THEN <<>>
    ELSE (IF IsDigit(Head(mc_number)) THEN <<Head(mc_number)>> ELSE <<>>)
         \o mc_digits(Tail(mc_number))

\* the try block of verify_carrier: what it returns, or the exception that
\* leaves it.  http is what client.get and response.json() come to.
VerifyTry(http) ==
    IF "raised" \in DOMAIN http
    THEN [exception |-> http.raised]
    ELSE IF http.status_code = 200
    THEN IF http.body.parsed
         THEN parse_fmcsa_response(http.body.data)
         ELSE [exception |-> "JSONDecodeError"]
    ELSE IF http.status_code = 404
    THEN Verification(FALSE, JNull, "not_found",
                      <<"Carrier not found in FMCSA database">>)
    ELSE fallback_verification

\* Faulty variant: only the timeout is caught.
VerifyExcept_TimeoutOnly(tried) ==
    IF "exception" \in DOMAIN tried /\ tried.exception = "TimeoutException"
    THEN fallback_verification
    ELSE tried

\* the exceptions that derive from BaseException and not from Exception:
\* the cancellation of the task that awaits, the closing of its coroutine,
\* the ends of the process, and a group that holds one of these
BaseExceptions ==
    {"CancelledError", "GeneratorExit", "KeyboardInterrupt", "SystemExit",
     "BaseExceptionGroup"}

\* isinstance(e, Exception)
IsException(e) == e \notin BaseExceptions

\* the except clauses of verify_carrier: httpx.TimeoutException, then
\* Exception; any other exception leaves verify_carrier
VerifyExcept(tried) ==
    IF "exception" \in DOMAIN tried /\ tried.exception = "TimeoutException"
    THEN fallback_verification
    ELSE IF "exception" \in DOMAIN tried /\ IsException(tried.exception)
    THEN fallback_verification
    ELSE tried

\* no request is sent to the registry
NoFetch == [sent |-> FALSE]

verify_carrier(mc_number, FMCSA_WEBKEY, http) ==
    IF mc_number = <<>>
    THEN Verification(FALSE, JNull, "invalid", <<"MC number is required">>)
    ELSE IF ~Truthy(FMCSA_WEBKEY) THEN fallback_verification
    ELSE VerifyExcept(VerifyTry(http))

-----------------------------------------------------------------------------
(* models.py and main.py: the POST /api/offers/evaluate handler.  A field of
   the request body as it arrives is absent (or null), a text, an integer
   of any size, a float, true or false, or an array or object. *)

RawNone == [raw |-> "none"]
RawText(t) == [raw |-> "text", text |-> t]
RawInt(n) == [raw |-> "int", number |-> n]
RawFloat(x) == [raw |-> "float", number |-> x]
RawBool(b) == [raw |-> "bool", truth |-> b]
RawCompound == [raw |-> "compound"]

\* v is None or v == ""
NoneOrEmpty(v) == v.raw = "none" \/ (v.raw = "text" /\ v.text = <<>>)

\* the validator raises ValueError
Invalid == [valid |-> FALSE]

\* the validator returns x
Valid(x) == [valid |-> TRUE, value |-> x]

\* the validator raises an exception that is no ValueError
Raises(e) == [valid |-> FALSE, exception |-> e]

\* the white space that int() and float() strip from a text: the tab, the
\* line feed, the vertical tab (U+000B), the form feed, the carriage return,
\* the space, the next line (U+0085) and the no-break space (U+00A0)
Whitespace == {"\t", "\n", "", "\f", "\r", " ", "", " "}

RECURSIVE StripLeft(_)
StripLeft(t) ==
    IF t # <<>> /\ Head(t) \in Whitespace THEN StripLeft(Tail(t)) ELSE t

RECURSIVE StripRight(_)
StripRight(t) ==
    IF t # <<>> /\ t[Len(t)] \in Whitespace
    THEN StripRight(SubSeq(t, 1, Len(t) - 1)) ELSE t

\* str.strip()
Strip(t) == StripRight(StripLeft(t))

\* digits, with single underscores between digits
IsDigitPart(t) ==
    /\ t # <<>>
    /\ \A i \in 1..Len(t) :
           \/ IsDecimal(t[i])
           \/ /\ t[i] = "_"
              /\ 1 < i /\ i < Len(t)
              /\ IsDecimal(t[i - 1]) /\ IsDecimal(t[i + 1])

\* the digits of a digit part
DigitsOf(t) == SelectSeq(t, IsDecimal)

\* the number a text of digits denotes
RECURSIVE BigOfDigits(_)
BigOfDigits(t) ==
    IF t = <<>> THEN <<>>
    ELSE IF Len(t) = 1 THEN BigOfNat(CHOOSE d \in 0..9 : Digit(d) = t[1])
    ELSE LET half == Len(t) \div 2
         IN  BigAdd(BigMulPow10(BigOfDigits(SubSeq(t, 1, half)), Len(t) - half),
                    BigOfDigits(SubSeq(t, half + 1, Len(t))))

\* sys.get_int_max_str_digits(): int() of a text with more digits raises
\* ValueError
int_max_str_digits == 4300

\* MAX_ABS_EXP of CPython's conversion of a text to a double: the exponent
\* of a decimal literal is read up to this value, and a greater one is held
\* as this value
MAX_ABS_EXP == 1100000000

\* the natural number a, no greater than MAX_ABS_EXP
ExponentNat(a) ==
    IF Len(a) > 3 \/ Limb(a, 3) > 1 THEN MAX_ABS_EXP
    ELSE Min(MAX_ABS_EXP, Limb(a, 1) + Base * Limb(a, 2) + Base * Base * Limb(a, 3))

\* the place of the first character of t that is in chars, 0 if none
FirstOf(t, chars) ==
    IF \E i \in 1..Len(t) : t[i] \in chars
    THEN CHOOSE i \in 1..Len(t) : t[i] \in chars /\ \A j \in 1..(i - 1) : t[j] \notin chars
    ELSE 0

\* t begins with a sign
Signed(t) == t # <<>> /\ t[1] \in {"-", "+"}

\* t begins with a minus sign
Negative(t) == t # <<>> /\ t[1] = "-"

\* t without its sign
Unsigned(t) == IF Signed(t) THEN Tail(t) ELSE t

\* the exponent a sign and a digit part denote
SignedExponent(t) ==
    (IF Negative(t) THEN -1 ELSE 1) * ExponentNat(BigOfDigits(DigitsOf(Unsigned(t))))

\* the int a sign and a digit part denote
SignedNat(t) == MakeInt(Negative(t), BigOfDigits(DigitsOf(Unsigned(t))))

\* int(t) of a text without white space around it
ParseSignedInt(t) ==
    IF ~IsDigitPart(Unsigned(t)) THEN Invalid
    ELSE IF Len(DigitsOf(Unsigned(t))) > int_max_str_digits THEN Invalid
    ELSE Valid(Some(SignedNat(t)))

\* int(text): white space stripped, a sign, digits with underscores
ParseInt(text) == ParseSignedInt(Strip(text))

\* int(x) of a float: the fraction is cut off; nan raises ValueError and
\* an infinity OverflowError
TruncateFloat(x) ==
    CASE x.cls = "nan" -> Invalid
      [] x.cls = "inf" -> Raises("OverflowError")
      [] x.cls = "zero" -> Valid(Some(PyInt(0)))
      [] x.cls = "finite" ->
            Valid(Some(MakeInt(x.neg, IF x.exp >= 0 THEN BigShl(x.mant, x.exp)
                                      ELSE BigShr(x.mant, 0 - x.exp))))

\* int(v); of a list or a dict it raises TypeError, which the validators
\* turn into ValueError
IntOf(v) ==
    CASE v.raw = "int" -> Valid(Some(v.number))
      [] v.raw = "float" -> TruncateFloat(v.number)
      [] v.raw = "bool" -> Valid(Some(PyInt(IF v.truth THEN 1 ELSE 0)))
      [] v.raw = "text" -> ParseInt(v.text)
      [] v.raw = "compound" -> Invalid

\* the part of t before place i, all of t if i = 0
Before(t, i) == IF i = 0 THEN t ELSE SubSeq(t, 1, i - 1)

\* the part of t behind place i, nothing if i = 0
Behind(t, i) == IF i = 0 THEN <<>> ELSE SubSeq(t, i + 1, Len(t))

\* the float of a decimal literal from its parts: the digits before the
\* point, whether there is a point, the digits behind it, whether there is
\* an exponent, and the exponent with its sign
DecimalOfParts(neg, whole, pointed, fraction, exponential, exponent) ==
    IF ~(/\ IF ~pointed THEN IsDigitPart(whole)
            ELSE /\ whole = <<>> \/ IsDigitPart(whole)
                 /\ fraction = <<>> \/ IsDigitPart(fraction)
                 /\ whole # <<>> \/ fraction # <<>>
         /\ ~exponential \/ IsDigitPart(Unsigned(exponent)))
    THEN Invalid
    ELSE Valid(Some(FromDecimal(neg,
                                BigOfDigits(DigitsOf(whole) \o DigitsOf(fraction)),
                                SignedExponent(exponent) - Len(DigitsOf(fraction)))))

\* the float of a decimal literal from its mantissa and its exponent
DecimalOf(neg, mantissa, exponential, exponent) ==
    DecimalOfParts(neg, Before(mantissa, FirstOf(mantissa, {"."})),
                   FirstOf(mantissa, {"."}) # 0,
                   Behind(mantissa, FirstOf(mantissa, {"."})),
                   exponential, exponent)

\* float(text) of a decimal literal without sign: digits, a point, digits,
\* an exponent
ParseDecimal(neg, body) ==
    DecimalOf(neg, Before(body, FirstOf(body, {"e", "E"})),
              FirstOf(body, {"e", "E"}) # 0,
              Behind(body, FirstOf(body, {"e", "E"})))

\* float(text) of a text without sign, word being the text in lower case
ParseWord(neg, body, word) ==
    IF word \in {<<"i", "n", "f">>, <<"i", "n", "f", "i", "n", "i", "t", "y">>}
    THEN Valid(Some(FInf(neg)))
    ELSE IF word = <<"n", "a", "n">> THEN Valid(Some(FNan))
    ELSE ParseDecimal(neg, body)

\* float(t) of a text without white space around it
ParseSignedFloat(t) == ParseWord(Negative(t), Unsigned(t), Lower(Unsigned(t)))

\* float(text): white space stripped, a sign, then inf, infinity or nan in
\* any case, or a decimal literal
ParseFloat(text) == ParseSignedFloat(Strip(text))

\* float(a) of an int: OverflowError where the nearest double is none
FloatOfOrRaise(x) == IF x.cls = "inf" THEN Raises("OverflowError") ELSE Valid(Some(x))

\* float(v); of a list or a dict it raises TypeError, which the validators
\* turn into ValueError
FloatOf(v) ==
    CASE v.raw = "int" -> FloatOfOrRaise(FloatOfInt(v.number))
      [] v.raw = "float" -> Valid(Some(v.number))
      [] v.raw = "bool" -> Valid(Some(FromInt(IF v.truth THEN 1 ELSE 0)))
      [] v.raw = "text" -> ParseFloat(v.text)
      [] v.raw = "compound" -> Invalid

parse_initial_rate(v) == IF NoneOrEmpty(v) THEN Invalid ELSE FloatOf(v)

parse_agreed_rate(v) == IF NoneOrEmpty(v) THEN Valid(None) ELSE FloatOf(v)

parse_negotiation_rounds(v) == IF NoneOrEmpty(v) THEN Valid(None) ELSE IntOf(v)

parse_counter_offer(v) == IF NoneOrEmpty(v) THEN Valid(None) ELSE FloatOf(v)

\* the first of the validators' outcomes, in the order of the fields, that
\* is an exception leaving its validator; None if there is none
RECURSIVE FirstRaised(_)
FirstRaised(outcomes) ==
    IF outcomes = <<>> THEN None
    ELSE IF "exception" \in DOMAIN Head(outcomes) THEN Some(Head(outcomes))
    ELSE FirstRaised(Tail(outcomes))

\* the model of the body from what the validators of its fields came to;
\* load_id is required
Validate(load_id, i, a, n, c) ==
    IF FirstRaised(<<i, a, n, c>>) # None THEN Val(FirstRaised(<<i, a, n, c>>))
    ELSE IF IsNone(load_id) \/ ~i.valid \/ ~a.valid \/ ~n.valid \/ ~c.valid THEN Invalid
    ELSE [valid |-> TRUE, load_id |-> Val(load_id), initial_rate |-> Val(i.value),
          agreed_rate |-> a.value, negotiation_rounds |-> n.value,
          counter_offer |-> c.value]

\* the validated request, or Invalid (the request is refused with 422), or
\* the exception that leaves a validator; load_id is None where the body has
\* none
OfferEvaluateRequest(load_id, initial_rate, agreed_rate, negotiation_rounds, counter_offer) ==
    Validate(load_id, parse_initial_rate(initial_rate),
             parse_agreed_rate(agreed_rate),
             parse_negotiation_rounds(negotiation_rounds),
             parse_counter_offer(counter_offer))

\* the parameters of evaluate_offer; the last two have the default None
EvaluateOfferParameters ==
    {"db", "load_id", "initial_rate", "negotiated_rate", "negotiation_rounds"}

\* a call of evaluate_offer with keyword arguments, the record's fields
CallEvaluateOffer(kwargs) ==
    IF ~(DOMAIN kwargs \subseteq EvaluateOfferParameters)
       \/ ~({"db", "load_id", "initial_rate"} \subseteq DOMAIN kwargs)
    THEN [exception |-> "TypeError"]
    ELSE evaluate_offer(kwargs.db, kwargs.load_id, kwargs.initial_rate,
                        IF "negotiated_rate" \in DOMAIN kwargs
                        THEN kwargs.negotiated_rate ELSE None,
                        IF "negotiation_rounds" \in DOMAIN kwargs
                        THEN kwargs.negotiation_rounds ELSE None)

evaluate_offer_endpoint(db, req) ==
    CallEvaluateOffer([db |-> db, load_id |-> req.load_id,
                       initial_rate |-> req.initial_rate,
                       agreed_rate |-> req.agreed_rate,
                       negotiation_rounds |-> req.negotiation_rounds])

\* verify_api_key: the request is let through
verify_api_key(API_KEY, x_api_key) ==
    IF ~Truthy(API_KEY) THEN TRUE
    ELSE Truthy(x_api_key) /\ x_api_key = API_KEY

-----------------------------------------------------------------------------
(* main.py: the call-completed recording and the metrics.  call_sessions
   is the committed content of the table call_sessions, in insertion order;
   of a row only the columns get_metrics reads are kept.  Requests are served
   by any number of worker processes sharing the database; the session of
   get_metrics runs its statements one after the other, and each statement
   sees the rows committed before it starts. *)

\* sentiment == "" becomes None
parse_sentiment(v) == IF v = Some("") THEN None ELSE v

\* the row complete_call stores for a validated request
CallSession(call_id, req) ==
    [call_id |-> call_id, classification |-> req.classification,
     sentiment |-> parse_sentiment(req.sentiment),
     negotiation_rounds |-> req.negotiation_rounds,
     initial_rate |-> req.initial_rate, agreed_rate |-> req.agreed_rate]

\* x or "unknown"
OrUnknown(x) == IF x = None \/ Val(x) = "" THEN "unknown" ELSE Val(x)

\* the dict outcomes after the loop over calls
OutcomeCounts(calls) ==
    [k \in { OrUnknown(Some(calls[i].classification)) : i \in 1..Len(calls) } |->
        Cardinality({ i \in 1..Len(calls) :
                        OrUnknown(Some(calls[i].classification)) = k })]

\* the dict sentiment_dist after the loop over calls
SentimentCounts(calls) ==
    [k \in { OrUnknown(calls[i].sentiment) : i \in 1..Len(calls) } |->
        Cardinality({ i \in 1..Len(calls) : OrUnknown(calls[i].sentiment) = k })]

RECURSIVE SumRounds(_)
SumRounds(calls) ==
    IF calls = <<>> THEN 0
    ELSE (IF Head(calls).negotiation_rounds # None
          THEN Val(Head(calls).negotiation_rounds) ELSE 0)
         + SumRounds(Tail(calls))

RECURSIVE CountRounds(_)
CountRounds(calls) ==
    IF calls = <<>> THEN 0
    ELSE (IF Head(calls).negotiation_rounds # None THEN 1 ELSE 0)
         + CountRounds(Tail(calls))

\* the rate of a call in the loop over calls: the agreed rate if it is not
\* None, else the initial rate
RevenueOf(call) ==
    IF call.agreed_rate # None THEN call.agreed_rate ELSE call.initial_rate

\* total_revenue after the loop over the first n calls; it starts as the
\* int 0, and a rate that is None or zero adds nothing
RECURSIVE SumRevenue(_, _)
SumRevenue(calls, n) ==
    IF n = 0 THEN FZero(FALSE)
    ELSE LET before == SumRevenue(calls, n - 1)
             rate == RevenueOf(calls[n])
         IN  IF calls[n].classification = "accepted"
                /\ rate # None /\ FTruthy(Val(rate))
             THEN FAdd(before, Val(rate))
             ELSE before

\* the response of get_metrics from the count and the rows it has read; a
\* number that is the int 0 in the handler is 0.0 in the response
MetricsResponse(total_calls, calls) ==
    LET outcomes == OutcomeCounts(calls)
        accepted == IF "accepted" \in DOMAIN outcomes THEN outcomes["accepted"] ELSE 0
    IN  [total_calls |-> total_calls,
         conversion_rate |->
             IF total_calls > 0
             THEN Round2(FMul(FromRatio(accepted, total_calls), FromInt(100)))
             ELSE FZero(FALSE),
         avg_negotiation_rounds |->
             IF CountRounds(calls) > 0
             THEN Round2(FromRatio(SumRounds(calls), CountRounds(calls)))
             ELSE FZero(FALSE),
         outcomes |-> outcomes,
         sentiment |-> SentimentCounts(calls),
         total_revenue |-> Round2(SumRevenue(calls, Len(calls)))]

-----------------------------------------------------------------------------
(* The loads table *)

Chicago == <<"C", "h", "i", "c", "a", "g", "o", ",", " ", "I", "L">>
Atlanta == <<"A", "t", "l", "a", "n", "t", "a", ",", " ", "G", "A">>
Dallas == <<"D", "a", "l", "l", "a", "s", ",", " ", "T", "X">>
Phoenix == <<"P", "h", "o", "e", "n", "i", "x", ",", " ", "A", "Z">>
Miami == <<"M", "i", "a", "m", "i", ",", " ", "F", "L">>
Montreal == <<"M", "o", "n", "t", "r", "é", "a", "l", ",", " ", "Q", "C">>
NewYork == <<"N", "e", "w", " ", "Y", "o", "r", "k", ",", " ", "N", "Y">>
DryVan == <<"D", "r", "y", " ", "V", "a", "n">>
Van == <<"V", "a", "n">>
Reefer == <<"R", "e", "e", "f", "e", "r">>
Flatbed == <<"F", "l", "a", "t", "b", "e", "d">>
Jan15 == <<"2", "0", "2", "4", "-", "0", "1", "-", "1", "5", " ", "0", "8", ":", "0", "0">>
Jan16 == <<"2", "0", "2", "4", "-", "0", "1", "-", "1", "6", " ", "1", "0", ":", "0", "0">>
Jan17 == <<"2", "0", "2", "4", "-", "0", "1", "-", "1", "7", " ", "0", "6", ":", "0", "0">>

\* A row of the loads table (db_models.Load), with the columns the policy
\* and the matcher read.
Load(id, org, dst, pickup, equipment, rate, st) ==
    [load_id |-> id, origin |-> org, destination |-> dst,
     pickup_datetime |-> pickup, equipment_type |-> equipment,
     loadboard_rate |-> rate, status |-> st]

\* The rows startup_event inserts into an empty table; status has the
\* default of its column.
sample_loads ==
    << Load("LOAD001", Chicago, Atlanta, Jan15, DryVan, Dollars(2500), "available"),
       Load("LOAD002", Dallas, Phoenix, Jan16, Flatbed, Dollars(2800), "available"),
       Load("LOAD003", Miami, NewYork, Jan17, Reefer, Dollars(3200), "available") >>

\* Rows that reach the table otherwise (the service has no request that
\* writes a load): two with rates below 1500 dollars, 1000.15 and 1000.45,
\* where the 90% term of the floor wins, and one that is booked.
other_loads ==
    << Load("LOAD004", Chicago, Dallas, Jan16, DryVan, Cents(100015), "available"),
       Load("LOAD005", Montreal, Atlanta, Jan16, Van, Cents(100045), "available"),
       Load("LOAD006", Miami, Atlanta, Jan17, Reefer, Cents(250026), "booked") >>

\* The rows a table is drawn from, in the order of their insertion.
LoadPool == sample_loads \o other_loads

MaxLoads == 3

\* the rows of the pool at the places of the set picked, in their order
RECURSIVE Pick(_, _)
Pick(picked, n) ==
    IF n = 0 THEN <<>>
    ELSE Pick(picked, n - 1) \o (IF n \in picked THEN <<LoadPool[n]>> ELSE <<>>)

\* The tables: up to MaxLoads rows of the pool, load_id being the primary
\* key, in the order of their insertion.
Tables ==
    { Pick(picked, Len(LoadPool)) :
        picked \in { p \in SUBSET (1..Len(LoadPool)) : Cardinality(p) <= MaxLoads } }

LoadIds(db) == { db[i].load_id : i \in 1..Len(db) }

-----------------------------------------------------------------------------
(* Calls *)

\* Offers around the thresholds of the pool's rates.  For 2500.00 the floor
\* is 2350.0 and the acceptance threshold 2375.0; for 3200.00 the floor,
\* 3050.0, lies above the threshold, 3040.0; for 1000.15 the floor is
\* 900.135, which round(x, 2) takes down to 900.13; for 2500.26 the
\* threshold is 2375.2470000000003, just above 2375.247.
OfferRates ==
    { FZero(FALSE), FromDecimal(FALSE, BigOfNat(900135), -3), Dollars(920),
      Dollars(2300), Dollars(2350), Dollars(2375),
      FromDecimal(FALSE, BigOfNat(2375247), -3), Dollars(2400), Dollars(3040),
      Dollars(3050) }

InitialAsks == { Dollars(2400) }

\* the round numbers of a call, and 10^12
RoundNumbers == {-3, 0, 1, 2, 3, 100}
RoundValues ==
    { None, Some(MakeInt(FALSE, BigMulPow10(BigOfNat(1), 12))) }
    \cup { Some(PyInt(n)) : n \in RoundNumbers }

\* city criteria: a city in lower case, one with the wildcard _ of LIKE, one
\* in upper case with a letter outside ASCII, one with the escape of LIKE
OriginValues == { None, Some(<<"c", "h", "i", "c", "a", "g", "o">>),
                  Some(<<"C", "_", "i">>),
                  Some(<<"M", "O", "N", "T", "R", "É", "A", "L">>) }
DestinationValues == { None, Some(<<"G", "A">>), Some(<<"\\", "G", "A">>) }
EquipmentValues == { None, Some(<<>>), Some(<<"v", "a", "n">>), Some(Reefer) }
PickupFromValues == { None, Some(<<"2", "0", "2", "4", "-", "0", "1", "-", "1", "6">>) }
PickupToValues == { None, Some(Jan16) }

MaxResults == 2

Idle == [idle |-> TRUE]

\* no GET /api/metrics request is in progress
MetricsIdle == [stage |-> "idle"]

\* no call of verify_carrier waits for the registry's answer
NotWaiting == [waiting |-> FALSE]

\* the process of the service has not been started
Down == [stage |-> "down"]

\* startup_event has ended; the service serves requests
Up == [stage |-> "up"]

started == startup = Up

\* The service before its startup, on the database as it is found.
Init ==
    /\ startup = Down
    /\ loads \in Tables
    /\ request = Idle
    /\ response = Idle
    /\ call_sessions = <<>>
    /\ metrics = MetricsIdle
    /\ verification = NotWaiting

\* startup_event of src/app/api/main.py up to its query: init_database()
\* and session.query(Load).count().  The process starts for the first time or
\* anew after a start that failed.
StartupCount ==
    /\ startup.stage \in {"down", "failed"}
    /\ startup' = [stage |-> "counted", count |-> Len(loads)]
    /\ UNCHANGED <<loads, request, response, call_sessions, metrics, verification>>

\* the load ids of the rows of a table
TableIds(db) == { db[i].load_id : i \in 1..Len(db) }

\* startup_event of src/app/api/main.py after its query: if the count was 0
\* the sample loads are added and committed.  load_id is the primary key: if
\* a sample load is in the table by now the commit raises IntegrityError,
\* nothing is inserted, startup_event has no handler for it and the process
\* does not come up.  Else the service is up and serves requests.
StartupSeed ==
    /\ startup.stage = "counted"
    /\ IF startup.count # 0
       THEN /\ startup' = Up
            /\ loads' = loads
       ELSE IF TableIds(loads) \cap TableIds(sample_loads) # {}
       THEN /\ startup' = [stage |-> "failed", exception |-> "IntegrityError"]
            /\ loads' = loads
       ELSE /\ startup' = Up
            /\ loads' = loads \o sample_loads
    /\ UNCHANGED <<request, response, call_sessions, metrics, verification>>

\* Another process of the service of src/app/api is started on the same
\* database while this one is starting: it has found the loads table empty
\* and commits the sample loads now, the table still being empty.
SecondStartup ==
    /\ ~started
    /\ loads = <<>>
    /\ loads' = sample_loads
    /\ UNCHANGED <<startup, request, response, call_sessions, metrics, verification>>

\* startup_event of src/backend/app/api/main.py: init_database() only.
BackendStartup ==
    /\ startup = Down
    /\ startup' = Up
    /\ UNCHANGED <<loads, request, response, call_sessions, metrics, verification>>

\* A call of evaluate_offer on the table; the call only reads the table.
EvaluateOffer(load_id, initial_rate, negotiated_rate, negotiation_rounds) ==
    /\ request' = [op |-> "evaluate_offer", load_id |-> load_id,
                   initial_rate |-> initial_rate,
                   negotiated_rate |-> negotiated_rate,
                   negotiation_rounds |-> negotiation_rounds]
    /\ response' = evaluate_offer(loads, load_id, initial_rate, negotiated_rate,
                                  negotiation_rounds)
    /\ loads' = loads
    /\ UNCHANGED <<startup, call_sessions, metrics, verification>>

\* A call of search_loads on the table, lc_ctype being the setting of the
\* database that serves it; the call only reads the table.  What the query
\* came to is kept with the request, as fetched.
SearchLoads(lc_ctype, origin, destination, equipment_type, pickup_from, pickup_to, max_results) ==
    /\ \E fetched \in QueryLimitAll(loads, lc_ctype, origin, destination,
                                    equipment_type, pickup_from, pickup_to,
                                    max_results) :
           /\ request' = [op |-> "search_loads", lc_ctype |-> lc_ctype,
                          origin |-> origin, destination |-> destination,
                          equipment_type |-> equipment_type,
                          pickup_from |-> pickup_from, pickup_to |-> pickup_to,
                          max_results |-> max_results, fetched |-> fetched]
           /\ response' = RankedResults(fetched, origin, destination,
                                        equipment_type, max_results)
    /\ loads' = loads
    /\ UNCHANGED <<startup, call_sessions, metrics, verification>>

EvaluateInitial ==
    /\ started
    /\ request = Idle
    /\ \E load_id \in LoadIds(loads) \cup {"LOAD999"}, initial_rate \in OfferRates,
          negotiation_rounds \in RoundValues :
           EvaluateOffer(load_id, initial_rate, None, negotiation_rounds)

EvaluateAgreed ==
    /\ started
    /\ request = Idle
    /\ \E load_id \in LoadIds(loads) \cup {"LOAD999"}, initial_rate \in InitialAsks,
          agreed_rate \in OfferRates, negotiation_rounds \in RoundValues :
           EvaluateOffer(load_id, initial_rate, Some(agreed_rate), negotiation_rounds)

Search ==
    /\ started
    /\ request = Idle
    /\ \E lc_ctype \in LcCtypes, origin \in OriginValues,
          destination \in DestinationValues, equipment_type \in EquipmentValues,
          pickup_from \in PickupFromValues, pickup_to \in PickupToValues,
          max_results \in -1..MaxResults :
           SearchLoads(lc_ctype, origin, destination, equipment_type, pickup_from,
                       pickup_to, max_results)

\* the carrier of a registry answer
Carrier(legalName, allowedToOperate, oosDate) ==
    JObject(<<<<"legalName", legalName>>, <<"allowedToOperate", allowedToOperate>>,
              <<"oosDate", oosDate>>>>)

Carriers ==
    { Carrier(JString("ACME TRUCKING"), JString("Y"), JNull),
      Carrier(JString("ACME TRUCKING"), JString("N"), JNull),
      Carrier(JString("ACME TRUCKING"), JString("Y"), JString("2023-05-01")),
      Carrier(JNull, JString("N"), JString("2023-05-01")),
      JObject(<<<<"allowedToOperate", JString("Y")>>>>),
      JObject(<<>>) }

\* what response.json() can decode to
JsonData ==
    { JObject(<<<<"content", JArray(<<JObject(<<<<"carrier", c>>>>)>>)>>>>) :
          c \in Carriers }
    \cup { JArray(<<>>),
           JString("Service Unavailable"),
           JObject(<<>>),
           JObject(<<<<"content", JNull>>>>),
           JObject(<<<<"content", JArray(<<>>)>>>>),
           JObject(<<<<"content", JString("none")>>>>),
           JObject(<<<<"content", JNumber(0)>>>>),
           JObject(<<<<"content", JBool(TRUE)>>>>),
           JObject(<<<<"content",
                       JObject(<<<<"carrier", Carrier(JString("ACME TRUCKING"),
                                                      JString("Y"), JNull)>>>>)>>>>),
           JObject(<<<<"content", JArray(<<JString("carrier")>>)>>>>),
           JObject(<<<<"content", JArray(<<JObject(<<>>)>>)>>>>),
           JObject(<<<<"content", JArray(<<JObject(<<<<"carrier", JNull>>>>)>>)>>>>) }

\* a body that is not JSON
NotJson == [parsed |-> FALSE]

Bodies == {NotJson} \cup { [parsed |-> TRUE, data |-> d] : d \in JsonData }

EligibleBody ==
    [parsed |-> TRUE,
     data |-> JObject(<<<<"content",
                  JArray(<<JObject(<<<<"carrier", Carrier(JString("ACME TRUCKING"),
                                                JString("Y"), JNull)>>>>)>>)>>>>)]

StatusCodes == {404, 403, 500}

\* what the GET of the registry comes to: an exception, or a response
HttpOutcomes ==
    { [raised |-> e] :
          e \in {"TimeoutException", "ConnectError", "CancelledError", "GeneratorExit"} }
    \cup { [status_code |-> 200, body |-> b] : b \in Bodies }
    \cup { [status_code |-> c, body |-> b] :
               c \in StatusCodes, b \in {NotJson, EligibleBody} }

McNumbers == {<<>>, <<"M", "C", "-", "7", "1">>, <<"7", "1">>,
              <<"M", "C", "-", "7", "²">>}
WebKeys == {None, Some(<<>>), Some(<<"k">>)}

\* A call of verify_carrier up to its await; FMCSA_WEBKEY is the
\* environment's value.  Without an MC number or without a web key the call
\* returns at once; otherwise the GET is sent, and other requests are served
\* while the call waits for the answer.
VerifySend ==
    /\ started
    /\ request = Idle
    /\ verification = NotWaiting
    /\ \E mc_number \in McNumbers, FMCSA_WEBKEY \in WebKeys :
           IF mc_number # <<>> /\ Truthy(FMCSA_WEBKEY)
           THEN /\ verification' = [waiting |-> TRUE, mc_number |-> mc_number,
                                    FMCSA_WEBKEY |-> FMCSA_WEBKEY,
                                    docket |-> mc_digits(mc_number)]
                /\ UNCHANGED <<request, response>>
           ELSE /\ request' = [op |-> "verify_carrier", mc_number |-> mc_number,
                               FMCSA_WEBKEY |-> FMCSA_WEBKEY, fetch |-> NoFetch]
                /\ response' = verify_carrier(mc_number, FMCSA_WEBKEY, NoFetch)
                /\ verification' = verification
    /\ UNCHANGED <<startup, loads, call_sessions, metrics>>

\* The call of verify_carrier that waits goes on: client.get has come to an
\* answer or to an exception, the cancellation of the waiting task among
\* them.
VerifyAnswer ==
    /\ request = Idle
    /\ verification # NotWaiting
    /\ \E http \in HttpOutcomes :
           /\ request' = [op |-> "verify_carrier",
                          mc_number |-> verification.mc_number,
                          FMCSA_WEBKEY |-> verification.FMCSA_WEBKEY,
                          fetch |-> [sent |-> TRUE, docket |-> verification.docket,
                                     http |-> http]]
           /\ response' = verify_carrier(verification.mc_number,
                                         verification.FMCSA_WEBKEY, http)
    /\ verification' = NotWaiting
    /\ UNCHANGED <<startup, loads, call_sessions, metrics>>

\* the int 10^400, past the largest float
Googol4 == MakeInt(FALSE, BigMulPow10(BigOfNat(1), 400))

\* values of the fields of a body; two of the texts have a no-break space
\* (U+00A0) or a vertical tab (U+000B) next to the number
RawInitialRates ==
    {RawNone, RawFloat(Dollars(920)), RawText(<<"n", "a", "n">>), RawCompound,
     RawInt(Googol4), RawText(<<" ", "9", "2", "0", ".", "5">>)}
RawAgreedRates ==
    {RawNone, RawText(<<>>), RawText(<<" ", "9", "5", "0", ".", "5", "0">>),
     RawInt(Googol4)}
RawRounds ==
    {RawNone, RawText(<<"2">>), RawText(<<"a">>), RawInt(PyInt(-3)), RawBool(TRUE),
     RawFloat(FInf(FALSE)), RawText(<<"1", "0", "0", "0", "0", "0", "0", "0", "0", "1">>),
     RawFloat(FromDecimal(FALSE, BigOfNat(1), 10)), RawText(<<"", "2", " ">>),
     RawText(<<"7", "²">>)}
RawCounterOffers == {RawNone, RawText(<<"a", "b", "c">>), RawFloat(Dollars(2300))}

\* the load ids POST /api/offers/evaluate is called with; None is a body
\* without load_id
EndpointLoadIds == {None, Some("LOAD001"), Some("LOAD999")}

\* the configured API key and the x-api-key header of a request
ApiKeys ==
    { <<None, None>>, <<Some(<<"s">>), Some(<<"s">>)>>,
      <<Some(<<"s">>), Some(<<"w">>)>> }

ValidKeys == <<Some(<<"s">>), Some(<<"s">>)>>

\* a body of POST /api/offers/evaluate
Body(load_id, initial_rate, agreed_rate, negotiation_rounds, counter_offer) ==
    [load_id |-> load_id, initial_rate |-> initial_rate,
     agreed_rate |-> agreed_rate, negotiation_rounds |-> negotiation_rounds,
     counter_offer |-> counter_offer]

BaseBody == Body(Some("LOAD001"), RawFloat(Dollars(920)), RawNone, RawNone, RawNone)

\* The bodies sent: every combination of the values of the three fields the
\* handler passes on, and every combination of load_id and counter_offer
\* with two settings of the other fields.
EndpointBodies ==
    { Body(Some("LOAD001"), i, a, n, RawNone) :
          i \in RawInitialRates, a \in RawAgreedRates, n \in RawRounds }
    \cup { Body(l, RawFloat(Dollars(920)), RawNone, n, c) :
              l \in EndpointLoadIds, n \in {RawNone, RawText(<<"a">>)},
              c \in RawCounterOffers }

\* the model pydantic makes of a body
ModelOf(body) ==
    OfferEvaluateRequest(body.load_id, body.initial_rate, body.agreed_rate,
                         body.negotiation_rounds, body.counter_offer)

\* the answer to a POST /api/offers/evaluate request whose body the model
\* made req of
PostEvaluate(db, API_KEY, x_api_key, req) ==
    IF ~verify_api_key(API_KEY, x_api_key)
    THEN [exception |-> "HTTPException 401"]
    ELSE IF "exception" \in DOMAIN req
    THEN [exception |-> req.exception]
    ELSE IF ~req.valid
    THEN [exception |-> "RequestValidationError 422"]
    ELSE evaluate_offer_endpoint(db, req)

\* A POST /api/offers/evaluate request: authentication, validation of the
\* body, then the handler.
EvaluateEndpoint ==
    /\ started
    /\ request = Idle
    /\ \E body \in EndpointBodies, keys \in ApiKeys :
           /\ keys = ValidKeys \/ body = BaseBody
           /\ request' = [op |-> "evaluate_offer_endpoint",
                          API_KEY |-> keys[1], x_api_key |-> keys[2],
                          body |-> body]
           /\ response' = PostEvaluate(loads, keys[1], keys[2], ModelOf(body))
           /\ loads' = loads
           /\ UNCHANGED <<startup, call_sessions, metrics, verification>>

\* A call of calculate_match_score on a row of the table.
Score ==
    /\ started
    /\ request = Idle
    /\ \E i \in 1..Len(loads), origin \in OriginValues,
          destination \in DestinationValues, equipment_type \in EquipmentValues :
           /\ request' = [op |-> "calculate_match_score", load |-> loads[i],
                          origin |-> origin, destination |-> destination,
                          equipment_type |-> equipment_type]
           /\ response' = [score |-> calculate_match_score(loads[i], origin,
                                                          destination, equipment_type)]
           /\ loads' = loads
           /\ UNCHANGED <<startup, call_sessions, metrics, verification>>

\* The caller takes the counter it has just been offered: the same request
\* with the counter rate as the agreed rate.
AcceptCounter ==
    /\ request # Idle
    /\ request.op = "evaluate_offer"
    /\ "decision" \in DOMAIN response
    /\ response.decision = "counter"
    /\ EvaluateOffer(request.load_id, request.initial_rate, response.rate,
                     request.negotiation_rounds)

\* The caller sends the request it has just had answered once more; the
\* query of search_loads is run again.
Retry ==
    /\ request # Idle
    /\ \/ /\ request.op = "evaluate_offer"
          /\ EvaluateOffer(request.load_id, request.initial_rate,
                           request.negotiated_rate, request.negotiation_rounds)
       \/ /\ request.op = "search_loads"
          /\ SearchLoads(request.lc_ctype, request.origin, request.destination,
                         request.equipment_type, request.pickup_from,
                         request.pickup_to, request.max_results)

\* The answer has been delivered; the service waits for the next request.
Return ==
    /\ request # Idle
    /\ request' = Idle
    /\ response' = Idle
    /\ loads' = loads
    /\ UNCHANGED <<startup, call_sessions, metrics, verification>>

Next ==
    \/ StartupCount \/ StartupSeed \/ SecondStartup \/ BackendStartup
    \/ EvaluateInitial \/ EvaluateAgreed \/ EvaluateEndpoint \/ Search
    \/ Score \/ AcceptCounter \/ Retry \/ Return

Spec == Init /\ [][Next]_vars

\* the decimal digits of a natural number
RECURSIVE NatDigits(_)
NatDigits(n) ==
    IF n < 10 THEN <<HexDigits[n + 1]>>
    ELSE NatDigits(n \div 10) \o <<HexDigits[(n % 10) + 1]>>

\* repr(v) of a decoded JSON value, the texts of which are sequences of
\* characters here: None, True and False, the digits of an int, repr of a
\* str, and the items of a list and of a dict with ", " between them
RECURSIVE PyRepr(_)
RECURSIVE ReprItems(_)
RECURSIVE ReprMembers(_)
PyRepr(v) ==
    CASE v.json = "null" -> <<"N", "o", "n", "e">>
      [] v.json = "boolean" ->
             IF v.value THEN <<"T", "r", "u", "e">> ELSE <<"F", "a", "l", "s", "e">>
      [] v.json = "number" ->
             IF v.value < 0 THEN <<"-">> \o NatDigits(-v.value)
             ELSE NatDigits(v.value)
      [] v.json = "string" -> StrRepr(v.value)
      [] v.json = "array" -> <<"[">> \o ReprItems(v.items) \o <<"]">>
      [] v.json = "object" -> <<"{">> \o ReprMembers(v.members) \o <<"}">>

ReprItems(items) ==
    IF items = <<>> THEN <<>>
    ELSE PyRepr(Head(items))
         \o (IF Len(items) = 1 THEN <<>> ELSE <<",", " ">> \o ReprItems(Tail(items)))

ReprMembers(members) ==
    IF members = <<>> THEN <<>>
    ELSE StrRepr(Head(members)[1]) \o <<":", " ">> \o PyRepr(Head(members)[2])
         \o (IF Len(members) = 1 THEN <<>>
             ELSE <<",", " ">> \o ReprMembers(Tail(members)))

\* the key "sentiment" of an extraction
SentimentKey == <<"s", "e", "n", "t", "i", "m", "e", "n", "t">>

\* the row complete_call of src/app/api/main.py makes of a validated
\* request: sentiment is extraction.get("sentiment") for an extraction that
\* is not empty, extracted_data is str(extraction)
AppCallSession(req) ==
    [session_id |-> req.call_id,
     transcript |-> req.transcript,
     extracted_data |-> PyRepr(req.extraction),
     outcome |-> req.classification,
     sentiment |-> IF JTruthy(req.extraction) /\ HasGet(req.extraction)
                   THEN DictGet(req.extraction, SentimentKey, JNull)
                   ELSE JNull,
     call_duration |-> req.duration_sec]

\* validated bodies of POST /api/events/call-completed of src/app/api: one
\* with an empty extraction, one whose extraction holds a sentiment and
\* notes with a quote, a tab and values that are not texts
AppCallRequests ==
    { [call_id |-> "CALL-1", transcript |-> <<>>, extraction |-> JObject(<<>>),
       classification |-> "rejected", duration_sec |-> 0],
      [call_id |-> "CALL-1", transcript |-> <<"h", "i">>,
       extraction |->
           JObject(<< <<SentimentKey, JString(<<"p", "o", "s", "i", "t", "i", "v", "e">>)>>,
                      <<<<"n", "o", "t", "e", "s">>,
                        JArray(<<JString(<<"c", "a", "n", "'", "t", "\t", "g", "o">>), JBool(TRUE),
                                 JNull, JNumber(920)>>)>> >>),
       classification |-> "accepted", duration_sec |-> 95] }

MaxSessions == 2

\* complete_call of src/app/api/main.py: db.add and db.commit of the row.
\* The CallSession class of this version of the service is defined in a
\* db_models.py that is not among the sources, so it is not known whether
\* session_id is unique in its table: for a session_id that is in the table
\* already the commit either raises IntegrityError and stores nothing, or
\* stores the row.  The table is followed up to MaxSessions rows.
AppCompleteCall ==
    /\ started
    /\ request = Idle
    /\ \E req \in AppCallRequests, unique \in BOOLEAN :
           /\ request' = [op |-> "complete_call", body |-> req]
           /\ IF /\ unique
                 /\ \E i \in 1..Len(call_sessions) :
                        call_sessions[i].session_id = req.call_id
              THEN /\ response' = [exception |-> "IntegrityError"]
                   /\ call_sessions' = call_sessions
              ELSE /\ Len(call_sessions) < MaxSessions
                   /\ response' = [status |-> "recorded"]
                   /\ call_sessions' = Append(call_sessions, AppCallSession(req))
    /\ UNCHANGED <<startup, loads, metrics, verification>>

\* The service of src/app/api from its start: the table as startup_event
\* finds it when first deployed, empty.
InitVerify ==
    /\ startup = Down
    /\ loads = <<>>
    /\ request = Idle
    /\ response = Idle
    /\ call_sessions = <<>>
    /\ metrics = MetricsIdle
    /\ verification = NotWaiting

NextVerify ==
    \/ StartupCount \/ StartupSeed \/ SecondStartup
    \/ VerifySend \/ VerifyAnswer \/ AppCompleteCall \/ Search \/ Return

SpecVerify == InitVerify /\ [][NextVerify]_vars

CallIds == {"CALL-1", "CALL-2", "CALL-3"}

\* validated bodies of POST /api/events/call-completed
CallRequests ==
    { [classification |-> "accepted", sentiment |-> Some("positive"),
       negotiation_rounds |-> Some(2), initial_rate |-> Some(Dollars(2400)),
       agreed_rate |-> Some(Dollars(2300))],
      [classification |-> "rejected", sentiment |-> Some(""),
       negotiation_rounds |-> None, initial_rate |-> Some(Dollars(920)),
       agreed_rate |-> None],
      [classification |-> "accepted", sentiment |-> None,
       negotiation_rounds |-> Some(3), initial_rate |-> Some(Dollars(920)),
       agreed_rate |-> None] }

\* complete_call: db.add and db.commit of the row; a call_id already in the
\* table violates the primary key and nothing is stored.
CompleteCall ==
    /\ started
    /\ \E call_id \in CallIds, req \in CallRequests :
           /\ request' = [op |-> "complete_call", call_id |-> call_id, body |-> req]
           /\ IF \E i \in 1..Len(call_sessions) : call_sessions[i].call_id = call_id
              THEN /\ response' = [exception |-> "IntegrityError"]
                   /\ call_sessions' = call_sessions
              ELSE /\ response' = [status |-> "recorded"]
                   /\ call_sessions' = Append(call_sessions, CallSession(call_id, req))
    /\ UNCHANGED <<startup, loads, metrics, verification>>

\* get_metrics, first statement: total_calls = db.query(CallSession).count()
MetricsCount ==
    /\ started
    /\ metrics = MetricsIdle
    /\ metrics' = [stage |-> "counted", total_calls |-> Len(call_sessions)]
    /\ UNCHANGED <<startup, loads, request, response, call_sessions, verification>>

\* get_metrics, second statement calls = db.query(CallSession).all(), and
\* the rest of the handler
MetricsAll ==
    /\ metrics.stage = "counted"
    /\ metrics' = [stage |-> "responded",
                   response |-> MetricsResponse(metrics.total_calls, call_sessions)]
    /\ UNCHANGED <<startup, loads, request, response, call_sessions, verification>>

\* the metrics response has been delivered
MetricsReturn ==
    /\ metrics.stage = "responded"
    /\ metrics' = MetricsIdle
    /\ UNCHANGED <<startup, loads, request, response, call_sessions, verification>>

InitMetrics ==
    /\ startup = Down
    /\ loads = <<>>
    /\ request = Idle
    /\ response = Idle
    /\ call_sessions = <<>>
    /\ metrics = MetricsIdle
    /\ verification = NotWaiting

NextMetrics == BackendStartup \/ CompleteCall \/ MetricsCount \/ MetricsAll \/ MetricsReturn

SpecMetrics == InitMetrics /\ [][NextMetrics]_vars

-----------------------------------------------------------------------------
(* What the properties below speak about *)

\* evaluate_offer has been called and its outcome is in response
Evaluated == request # Idle /\ request.op = "evaluate_offer"

\* search_loads has been called and its outcome is in response
Searched == request # Idle /\ request.op = "search_loads"

\* the call returned a Decision (it did not raise)
Decided == "decision" \in DOMAIN response

\* the load the request names is in the table
Found == \E i \in 1..Len(loads) : loads[i].load_id = request.load_id

\* that load's reference rate
ReferenceRate ==
    (CHOOSE l \in { loads[i] : i \in 1..Len(loads) } :
        l.load_id = request.load_id).loadboard_rate

\* the numbers of the specification, as floats
SpecFloorFactor == Cents(90)
SpecFloorDiscount == Dollars(150)
SpecAcceptFactor == Cents(95)
SpecMultipliers == <<Cents(92), Cents(89), Cents(87)>>

\* the reference rates of the rows a table can hold
PoolRates == { LoadPool[i].loadboard_rate : i \in 1..Len(LoadPool) }

\* the greater of a and b
Greater(a, b) == IF FGe(a, b) THEN a ELSE b

\* the floor of the specification, max(R * 0.9, R - 150), in the floats
\* of the implementation, for every reference rate R
SpecFloors ==
    { <<R, Greater(FMul(R, SpecFloorFactor), FSub(R, SpecFloorDiscount))>> :
          R \in PoolRates }

SpecFloor(R) == (CHOOSE p \in SpecFloors : p[1] = R)[2]

\* R * 0.95 for every reference rate R
SpecAcceptThresholds == { <<R, FMul(R, SpecAcceptFactor)>> : R \in PoolRates }

SpecAcceptThreshold(R) == (CHOOSE p \in SpecAcceptThresholds : p[1] = R)[2]

\* the effective offer of the request: the agreed rate if present, else the
\* initial rate
EffectiveOffer ==
    IF request.negotiated_rate # None THEN request.negotiated_rate[1]
    ELSE request.initial_rate

-----------------------------------------------------------------------------
(* C1..C5 *)

\* C1: for every existing load with reference rate R > 0, the floor that
\* evaluate_offer returns equals max(R*0.9, R-150) and is never greater
\* than R.
C1_Floor ==
    (Evaluated /\ Found /\ Decided /\ FGt(ReferenceRate, FZero(FALSE))) =>
        /\ response.floor = SpecFloor(ReferenceRate)
        /\ FLe(response.floor, ReferenceRate)

\* a Decision for an existing load whose floor is the flat term, R - 150,
\* the percentage term being lower
C1_Witness ==
    /\ Evaluated /\ Found /\ Decided
    /\ response.floor = FSub(ReferenceRate, SpecFloorDiscount)
    /\ FGt(response.floor, FMul(ReferenceRate, SpecFloorFactor))

\* C2 as stated: an unknown load id is answered, not raised, with reject,
\* rate null, floor 0 and reason exactly "Load not found." (with the full
\* stop).
C2_AsStated ==
    (Evaluated /\ ~Found) =>
        response = [decision |-> "reject", rate |-> <<>>, floor |-> FZero(FALSE),
                    reason |-> <<"Load not found.">>]

\* C2 as amended: an unknown load id is answered, not raised, with reject,
\* rate null, floor 0 and reason exactly "Load not found" (no full stop),
\* whatever the offer context is.
C2_NotFound ==
    (Evaluated /\ ~Found) =>
        response = [decision |-> "reject", rate |-> <<>>, floor |-> FZero(FALSE),
                    reason |-> <<"Load not found">>]

\* an unknown load id evaluated with an agreed rate and a round number
C2_Witness ==
    /\ Evaluated /\ ~Found
    /\ request.negotiated_rate # None /\ request.negotiation_rounds # None
    /\ Decided /\ response.decision = "reject"

\* C3: for an existing load, evaluate_offer returns reject, with rate null,
\* exactly when the effective offer is strictly below the floor; an offer
\* equal to the floor is never rejected.
C3_RejectIffBelowFloor ==
    (Evaluated /\ Found) =>
        /\ (Decided /\ response.decision = "reject")
               <=> FLt(EffectiveOffer, SpecFloor(ReferenceRate))
        /\ (Decided /\ response.decision = "reject") => response.rate = <<>>

\* an effective offer exactly equal to the floor, and not rejected
C3_Witness ==
    /\ Evaluated /\ Found /\ Decided
    /\ EffectiveOffer = SpecFloor(ReferenceRate)
    /\ response.decision # "reject"

\* C4: for an existing load with reference rate R, evaluate_offer returns
\* accept exactly when the effective offer is at least the floor and at
\* least R*0.95, and the returned rate is then the effective offer.
C4_AcceptIffAtThreshold ==
    (Evaluated /\ Found) =>
        /\ (Decided /\ response.decision = "accept")
               <=> /\ FGe(EffectiveOffer, SpecFloor(ReferenceRate))
                   /\ FGe(EffectiveOffer, SpecAcceptThreshold(ReferenceRate))
        /\ (Decided /\ response.decision = "accept")
               => response.rate = <<EffectiveOffer>>

\* an effective offer exactly equal to R*0.95 and above the floor, accepted
C4_Witness ==
    /\ Evaluated /\ Found /\ Decided
    /\ EffectiveOffer = SpecAcceptThreshold(ReferenceRate)
    /\ FGt(EffectiveOffer, SpecFloor(ReferenceRate))
    /\ response.decision = "accept"

\* the multiplier table of the specification
SpecMultiplier(r) ==
    SpecMultipliers[SmallInt(IntMin(IntSub(r, PyInt(1)), PyInt(2))) + 1]

\* C5: whenever evaluate_offer returns counter for a load with reference
\* rate R and a supplied round r >= 1, the counter rate is
\* max(R * m, floor) rounded to 2 decimals, m = [0.92, 0.89, 0.87][min(r-1, 2)].
C5_CounterRate ==
    (/\ Evaluated /\ Found /\ Decided
     /\ response.decision = "counter"
     /\ request.negotiation_rounds # None
     /\ IntLe(PyInt(1), request.negotiation_rounds[1])) =>
        LET R == ReferenceRate
            r == request.negotiation_rounds[1]
            scaled == FMul(R, SpecMultiplier(r))
        IN  response.rate =
                <<Round2(IF FGe(scaled, SpecFloor(R)) THEN scaled ELSE SpecFloor(R))>>

\* a counter in round 1 at 0.92 R, which lies above the floor
C5_Witness ==
    /\ Evaluated /\ Found /\ Decided
    /\ response.decision = "counter"
    /\ request.negotiation_rounds = <<PyInt(1)>>
    /\ response.rate = <<Round2(FMul(ReferenceRate, SpecMultipliers[1]))>>
    /\ FGt(response.rate[1], response.floor)

\* a counter in round 100, past the end of the table
C5_WitnessRound100 ==
    /\ Evaluated /\ Found /\ Decided
    /\ response.decision = "counter"
    /\ request.negotiation_rounds = <<PyInt(100)>>

-----------------------------------------------------------------------------
(* C6..C10 *)

\* the request of the state, evaluated again with another round number
WithRound(r) ==
    evaluate_offer(loads, request.load_id, request.initial_rate,
                   request.negotiated_rate, r)

\* C6 as stated: when the offer context carries no round counter, the
\* round is taken to be 1: every counter Decision returned with the round
\* absent equals the Decision returned with round = 1.
C6_AsStated ==
    (/\ Evaluated /\ Found /\ Decided
     /\ request.negotiation_rounds = <<>>
     /\ response.decision = "counter") => response = WithRound(<<PyInt(1)>>)

\* C6 as amended: when the offer context carries no round counter, the
\* counter is the default one, max(R * 0.90, floor), which is the floor:
\* every counter Decision returned with the round absent equals the
\* Decision returned with round = 3 (not the one of round 1), and its rate
\* is the floor rounded to 2 decimals.
C6_AbsentRoundIsLastRound ==
    (/\ Evaluated /\ Found /\ Decided
     /\ request.negotiation_rounds = <<>>
     /\ response.decision = "counter") =>
        /\ response = WithRound(<<PyInt(3)>>)
        /\ response.rate = <<Round2(SpecFloor(ReferenceRate))>>

\* a counter Decision with the round absent, for a load whose round-1
\* counter, 0.92 R, lies above the floor
C6_Witness ==
    /\ Evaluated /\ Found /\ Decided
    /\ request.negotiation_rounds = <<>>
    /\ response.decision = "counter"
    /\ FGt(FMul(ReferenceRate, SpecMultipliers[1]), SpecFloor(ReferenceRate))

\* the request carries an agreed rate
Agreed == request.negotiated_rate # <<>>
AgreedRate == request.negotiated_rate[1]

\* the example of C7: reference rate 2500, floor 2350, agreed rates 2300
\* and 2400
ExampleRate == Dollars(2500)
ExampleFloor == Dollars(2350)
ExampleRejected == Dollars(2300)
ExampleAccepted == Dollars(2400)

\* the round number of the request is one at which the counter table is
\* indexed below its first entry: an integer of -3 or less
RoundBelowTable ==
    /\ request.negotiation_rounds # None
    /\ IntLe(request.negotiation_rounds[1], PyInt(-3))

\* C7 as stated (finalizing variant): with an agreed rate present,
\* evaluate_offer accepts with rate = agreedRate whenever
\* agreedRate >= floor and rejects only when agreedRate < floor.
C7_AsStated ==
    (Evaluated /\ Found /\ Agreed) =>
        /\ FGe(AgreedRate, SpecFloor(ReferenceRate)) =>
               /\ Decided
               /\ response.decision = "accept"
               /\ response.rate = <<AgreedRate>>
        /\ (Decided /\ response.decision = "reject") =>
               FLt(AgreedRate, SpecFloor(ReferenceRate))

\* C7 as amended: with an agreed rate present, evaluate_offer rejects
\* exactly when agreedRate < floor, and accepts, with rate = agreedRate,
\* exactly when agreedRate >= floor and agreedRate >= R * 0.95.  An agreed
\* rate in between (agreedRate == floor included) is countered, unless the
\* round number passed with it is an integer of -3 or less: then the call
\* raises IndexError.  For R = 2500 the floor is 2350, an agreed rate of
\* 2300 is rejected and one of 2400 is accepted.
C7_AgreedRate ==
    (Evaluated /\ Found /\ Agreed) =>
        LET R == ReferenceRate
        IN  /\ (Decided /\ response.decision = "reject")
                   <=> FLt(AgreedRate, SpecFloor(R))
            /\ (Decided /\ response.decision = "accept")
                   <=> /\ FGe(AgreedRate, SpecFloor(R))
                       /\ FGe(AgreedRate, SpecAcceptThreshold(R))
            /\ (Decided /\ response.decision = "accept")
                   => response.rate = <<AgreedRate>>
            /\ (FGe(AgreedRate, SpecFloor(R)) /\ FLt(AgreedRate, SpecAcceptThreshold(R)))
                   => IF RoundBelowTable
                      THEN response = [exception |-> "IndexError"]
                      ELSE Decided /\ response.decision = "counter"
            /\ (R = ExampleRate /\ AgreedRate = ExampleRejected) =>
                   /\ Decided
                   /\ response.decision = "reject"
                   /\ response.floor = ExampleFloor
            /\ (R = ExampleRate /\ AgreedRate = ExampleAccepted) =>
                   Decided /\ response.decision = "accept"

\* an agreed rate equal to the floor, countered
C7_Witness ==
    /\ Evaluated /\ Found /\ Decided /\ Agreed
    /\ AgreedRate = SpecFloor(ReferenceRate)
    /\ AgreedRate # request.initial_rate
    /\ response.decision = "counter"

\* an agreed rate equal to the floor with round number -3: the call raises
C7_WitnessRaises ==
    /\ Evaluated /\ Found /\ Agreed
    /\ AgreedRate = SpecFloor(ReferenceRate)
    /\ RoundBelowTable
    /\ response = [exception |-> "IndexError"]

\* initial rates other than the one of the request
OtherInitialRates == { FZero(FALSE), Dollars(3050) }

\* C8: the effective offer is the agreed rate when present and the initial
\* rate otherwise: a call with agreed rate x returns the same for every
\* initial rate, and the same as a call with initial rate x and no agreed
\* rate.
C8_EffectiveOffer ==
    (Evaluated /\ Agreed) =>
        /\ \A i \in OtherInitialRates :
               evaluate_offer(loads, request.load_id, i, <<AgreedRate>>,
                              request.negotiation_rounds) = response
        /\ evaluate_offer(loads, request.load_id, AgreedRate, <<>>,
                          request.negotiation_rounds) = response

\* an agreed rate of 0 under an initial rate that alone would be accepted
C8_Witness ==
    /\ Evaluated /\ Found /\ Decided /\ Agreed
    /\ AgreedRate = FZero(FALSE)
    /\ FGe(request.initial_rate, SpecAcceptThreshold(ReferenceRate))
    /\ FGe(request.initial_rate, SpecFloor(ReferenceRate))
    /\ response.decision = "reject"

\* the arguments of the call in progress: the request without what the
\* query of search_loads came to
Arguments(req) == [f \in DOMAIN req \ {"fetched"} |-> req[f]]

\* C9 as stated: evaluate_offer and search_loads are deterministic and
\* read-only: no call changes a row of the loads table, and a call repeated
\* with the same arguments on the same table returns the same result.
C9_AsStated ==
    [][ /\ request' # Idle => loads' = loads
        /\ (/\ request # Idle /\ request' # Idle
            /\ Arguments(request') = Arguments(request)
            /\ loads' = loads)
               => response' = response ]_vars

\* the part of C9 that holds: no call changes the loads table, and
\* evaluate_offer repeated with the same arguments on the same table
\* returns the same result
C9_ReadOnly ==
    [][ /\ request' # Idle => loads' = loads
        /\ (/\ Evaluated /\ request' = request /\ loads' = loads)
               => response' = response ]_vars

\* the place of a load in the table
RowOf(load_id) == CHOOSE i \in 1..Len(loads) : loads[i].load_id = load_id

\* the place of a load among the rows the query returned
FetchedAt(load_id) ==
    CHOOSE i \in 1..Len(request.fetched.rows) :
        request.fetched.rows[i].load_id = load_id

\* C10: for every max_results >= 0, search_loads returns at most
\* max_results loads, in non-increasing order of score, loads of equal
\* score in the order in which the repository returned them.
C10_Ranked ==
    (Searched /\ request.max_results >= 0) =>
        /\ "results" \in DOMAIN response
        /\ Len(response.results) <= request.max_results
        /\ \A i, j \in 1..Len(response.results) :
               i < j =>
                   /\ response.results[i].score >= response.results[j].score
                   /\ response.results[i].score = response.results[j].score
                          => FetchedAt(response.results[i].load_id)
                                 < FetchedAt(response.results[j].load_id)

\* a result cut to max_results = 2 that ranks a later row first and holds
\* two loads of equal score
C10_Witness ==
    /\ Searched /\ "results" \in DOMAIN response
    /\ request.max_results = 2
    /\ Len(response.results) = 2
    /\ \E t \in 1..Len(loads) :
           /\ loads[t].status = "available"
           /\ \A i \in 1..2 : response.results[i].load_id # loads[t].load_id
    /\ response.results[1].score = response.results[2].score

\* a result that ranks a row the repository returned later before one it
\* returned earlier
C10_WitnessReordered ==
    /\ Searched /\ "results" \in DOMAIN response
    /\ Len(response.results) = 2
    /\ response.results[1].score > response.results[2].score
    /\ FetchedAt(response.results[1].load_id)
           > FetchedAt(response.results[2].load_id)

-----------------------------------------------------------------------------
(* C11..C13 *)

\* a criterion is supplied: neither None nor the empty string
Supplied(o) == o # <<>> /\ o[1] # <<>>

\* the row of the table a returned load was made from
RowFor(result) == loads[RowOf(result.load_id)]

\* C11 as stated: every load search_loads returns is available, has a
\* score > 0, contains each supplied origin / destination / equipment
\* criterion as a case-insensitive substring of its field and has its
\* pickup timestamp within [pickup_from, pickup_to] when supplied; the call
\* returns a (possibly empty) sequence, not an error.
C11_AsStated ==
    Searched =>
        /\ "results" \in DOMAIN response
        /\ \A i \in 1..Len(response.results) :
               LET r == response.results[i]
               IN  /\ RowFor(r).status = "available"
                   /\ r.score > 0
                   /\ Supplied(request.origin) =>
                          Contains(Lower(request.origin[1]), Lower(r.origin))
                   /\ Supplied(request.destination) =>
                          Contains(Lower(request.destination[1]), Lower(r.destination))
                   /\ Supplied(request.equipment_type) =>
                          Contains(Lower(request.equipment_type[1]),
                                   Lower(r.equipment_type))
                   /\ Supplied(request.pickup_from) =>
                          StrLe(request.pickup_from[1], r.pickup_datetime)
                   /\ Supplied(request.pickup_to) =>
                          StrLe(r.pickup_datetime, request.pickup_to[1])

\* calculate_match_score has been called on a row
Scored == request # Idle /\ request.op = "calculate_match_score"

\* C12: calculate_match_score is the sum of the base 10, of 100 for an
\* equipment criterion equal to the load's equipment without regard to
\* case, else 50 for one that is a substring of it, else 0 (0 too when no
\* equipment criterion is supplied), of 30 for an origin criterion that is
\* a substring of the load's origin and of 30 likewise for the destination;
\* "Reefer" against "Reefer" scores 110 and "van" against "Dry Van" 60.
C12_AdditiveScore ==
    Scored =>
        LET l == request.load
            e == request.equipment_type
            equipmentTerm ==
                IF ~Supplied(e) THEN 0
                ELSE IF Lower(e[1]) = Lower(l.equipment_type) THEN 100
                ELSE IF Contains(Lower(e[1]), Lower(l.equipment_type)) THEN 50
                ELSE 0
            originTerm ==
                IF Supplied(request.origin)
                   /\ Contains(Lower(request.origin[1]), Lower(l.origin))
                THEN 30 ELSE 0
            destinationTerm ==
                IF Supplied(request.destination)
                   /\ Contains(Lower(request.destination[1]), Lower(l.destination))
                THEN 30 ELSE 0
        IN  /\ response.score = 10 + equipmentTerm + originTerm + destinationTerm
            /\ (/\ e = <<Reefer>> /\ l.equipment_type = Reefer
                /\ request.origin = <<>> /\ request.destination = <<>>)
                   => response.score = 110
            /\ (/\ e = <<<<"v", "a", "n">>>> /\ l.equipment_type = DryVan
                /\ request.origin = <<>> /\ request.destination = <<>>)
                   => response.score = 60

\* "van" scored against a load whose equipment is "Van": equal only
\* without regard to case
C12_Witness ==
    /\ Scored
    /\ request.equipment_type = <<<<"v", "a", "n">>>>
    /\ request.load.equipment_type = Van
    /\ request.origin # <<>> /\ request.destination # <<>>
    /\ response.score = 140

\* the available rows of the table, in table order
RECURSIVE AvailableRows(_)
AvailableRows(db) ==
    IF db = <<>> THEN <<>>
    ELSE IF Head(db).status = "available"
    THEN <<Head(db)>> \o AvailableRows(Tail(db))
    ELSE AvailableRows(Tail(db))

\* the request supplies no criterion at all
EmptyCriteria ==
    /\ ~Supplied(request.origin) /\ ~Supplied(request.destination)
    /\ ~Supplied(request.equipment_type)
    /\ ~Supplied(request.pickup_from) /\ ~Supplied(request.pickup_to)

\* C13 as stated: with empty criteria against a table holding n available
\* loads, search_loads returns exactly min(n, max_results) loads, each with
\* the base score 10, in repository order, and never raises.
C13_AsStated ==
    (Searched /\ EmptyCriteria) =>
        LET n == Len(AvailableRows(loads))
            k == IF n <= request.max_results THEN n ELSE request.max_results
        IN  /\ "results" \in DOMAIN response
            /\ Len(response.results) = k
            /\ \A i \in 1..k :
                   /\ response.results[i].load_id
                          = request.fetched.rows[i].load_id
                   /\ response.results[i].score = 10

\* C13 as amended: with empty criteria against a table holding n available
\* loads, search_loads called with max_results >= 0 does not raise and
\* returns exactly min(n, max_results) loads, each an available load of the
\* table and no load twice, each with the base score 10, in the order in
\* which the repository returned them; called with a negative max_results
\* it raises the error of the query, whose LIMIT is negative.
C13_EmptyCriteria ==
    (Searched /\ EmptyCriteria) =>
        IF request.max_results >= 0
        THEN LET avail == AvailableRows(loads)
                 n == Len(avail)
                 k == IF n <= request.max_results THEN n ELSE request.max_results
             IN  /\ "results" \in DOMAIN response
                 /\ Len(response.results) = k
                 /\ \A i \in 1..k :
                        /\ response.results[i].load_id
                               = request.fetched.rows[i].load_id
                        /\ response.results[i].score = 10
                        /\ \E j \in 1..n :
                               avail[j].load_id = response.results[i].load_id
                        /\ \A j \in 1..k :
                               i # j => response.results[i].load_id
                                            # response.results[j].load_id
        ELSE response = [exception |-> "LIMIT must not be negative"]

\* empty criteria (the equipment criterion the empty string) on a table
\* with more available loads than max_results, answered with loads other
\* than the first two of the table
C13_Witness ==
    /\ Searched /\ EmptyCriteria
    /\ "results" \in DOMAIN response
    /\ request.max_results = 2
    /\ Len(response.results) = 2
    /\ Len(AvailableRows(loads)) = 3
    /\ request.equipment_type = <<<<>>>>
    /\ response.results[1].load_id = AvailableRows(loads)[3].load_id

\* empty criteria with max_results = -1: the call raises
C13_WitnessNegative ==
    /\ Searched /\ EmptyCriteria
    /\ request.max_results = -1
    /\ "exception" \in DOMAIN response

-----------------------------------------------------------------------------
(* C14 *)

\* verify_carrier has been called
Verified == request # Idle /\ request.op = "verify_carrier"

\* the call reached the registry
Fetched == Verified /\ request.fetch.sent

\* the decoded body does not have the shape {"content": [{"carrier": {..}}]}
\* with content absent, null or empty allowed
Malformed(data) ==
    \/ data.json # "object"
    \/ LET content == DictGet(data, "content", JArray(<<>>))
       IN  /\ JTruthy(content)
           /\ \/ content.json # "array"
              \/ content.items[1].json # "object"
              \/ DictGet(content.items[1], "carrier", JObject(<<>>)).json # "object"

\* the registry call failed: no web key, a raised exception (timeout or
\* other), a status other than 200, a body that is not JSON or is malformed
RegistryFailure ==
    /\ Verified
    /\ request.mc_number # <<>>
    /\ \/ ~Fetched
       \/ /\ Fetched
          /\ LET http == request.fetch.http
             IN  \/ "raised" \in DOMAIN http
                 \/ /\ "status_code" \in DOMAIN http
                    /\ \/ http.status_code # 200
                       \/ ~http.body.parsed
                       \/ Malformed(http.body.data)

\* C14 as stated: every failure of the registry call makes verify_carrier
\* return one and the same value, with eligible = false, and no exception
\* leaves verify_carrier.
C14_AsStated ==
    RegistryFailure => response = fallback_verification

\* client.get ended in an exception that is no Exception: the task that
\* awaited was cancelled, or the process is being ended
Interrupted ==
    /\ Fetched
    /\ "raised" \in DOMAIN request.fetch.http
    /\ ~IsException(request.fetch.http.raised)

\* C14: verify_carrier lets no exception of the class Exception out: it
\* returns a result unless the awaiting task is cancelled (or the process
\* ended) while it waits for the registry, and then that exception alone
\* leaves it.  On every failure of the registry call the result has
\* eligible = false and no legal name: it is the fallback value (status
\* "error", "Carrier verification unavailable ...") for a missing web key, a
\* raised Exception, a body that is not JSON and a status other than 200
\* and 404, the "not_found" value for status 404, and the "error" value with
\* the note "Error processing carrier data" for a decoded body of the wrong
\* shape.
C14_FailsClosed ==
    Verified =>
        IF Interrupted THEN response = [exception |-> request.fetch.http.raised]
        ELSE
        /\ "eligible" \in DOMAIN response
        /\ RegistryFailure =>
               /\ response.eligible = FALSE
               /\ response.legalName = JNull
               /\ LET http == request.fetch.http
                  IN  IF Fetched /\ "status_code" \in DOMAIN http
                         /\ http.status_code = 404
                      THEN /\ response.status = "not_found"
                           /\ response.riskNotes =
                                  <<"Carrier not found in FMCSA database">>
                      ELSE IF Fetched /\ "status_code" \in DOMAIN http
                              /\ http.status_code = 200 /\ http.body.parsed
                      THEN /\ response.status = "error"
                           /\ response.riskNotes = <<"Error processing carrier data">>
                      ELSE /\ response.status = "error"
                           /\ response.riskNotes =
                                  <<"Carrier verification unavailable - please try again later">>

\* the registry could not be reached (an exception other than a timeout)
C14_Witness ==
    /\ Fetched
    /\ "raised" \in DOMAIN request.fetch.http
    /\ request.fetch.http.raised = "ConnectError"
    /\ request.fetch.docket = <<"7", "1">>
    /\ request.mc_number # <<"7", "1">>
    /\ response = fallback_verification

\* the task was cancelled while it waited for the registry
C14_WitnessCancelled ==
    /\ Interrupted
    /\ response = [exception |-> "CancelledError"]

\* a search is answered while a call of verify_carrier waits for the
\* registry
C14_WitnessInterleaved ==
    /\ verification # NotWaiting
    /\ Searched /\ "results" \in DOMAIN response
    /\ Len(response.results) > 0

\* a decoded body of the wrong shape is answered with another value
C14_WitnessMalformed ==
    /\ Fetched
    /\ "status_code" \in DOMAIN request.fetch.http
    /\ request.fetch.http.status_code = 200
    /\ request.fetch.http.body.parsed
    /\ Malformed(request.fetch.http.body.data)
    /\ response = ParseError

-----------------------------------------------------------------------------
(* C15 *)

\* a POST /api/offers/evaluate request has been handled
EndpointCalled == request # Idle /\ request.op = "evaluate_offer_endpoint"

\* the request came with the right key and its body passed validation
Validated ==
    /\ EndpointCalled
    /\ verify_api_key(request.API_KEY, request.x_api_key)
    /\ "valid" \in DOMAIN ModelOf(request.body)
    /\ ModelOf(request.body).valid

\* C15 as stated: for every request that passes validation the handler
\* answers with the Decision of the policy for the request's load_id,
\* initial_rate, agreed_rate and negotiation_rounds, and does not end in an
\* error.
C15_AsStated ==
    Validated =>
        LET req == ModelOf(request.body)
        IN  /\ "decision" \in DOMAIN response
            /\ response = evaluate_offer(loads, req.load_id, req.initial_rate,
                                         req.agreed_rate, req.negotiation_rounds)

-----------------------------------------------------------------------------
(* C16..C18 *)

\* C16 as stated: every load search_loads returns has a score greater than
\* or equal to the score of every available load of the table that matches
\* the filters and was not returned.
C16_AsStated ==
    (Searched /\ "results" \in DOMAIN response) =>
        \A i \in 1..Len(response.results), j \in 1..Len(loads) :
            (/\ QueryFilter(loads[j], request.origin, request.destination,
                            request.equipment_type, request.pickup_from,
                            request.pickup_to, request.lc_ctype)
             /\ \A k \in 1..Len(response.results) :
                    response.results[k].load_id # loads[j].load_id)
                => response.results[i].score >=
                       calculate_match_score(loads[j], request.origin,
                                             request.destination,
                                             request.equipment_type)

\* C17 as stated: when evaluate_offer has answered counter with rate c, a
\* following call for the same load, unchanged, with agreed rate c is not
\* rejected.
C17_AsStated ==
    [][(/\ Evaluated
        /\ "decision" \in DOMAIN response
        /\ response.decision = "counter"
        /\ request' # Idle
        /\ request'.op = "evaluate_offer"
        /\ request'.load_id = request.load_id
        /\ request'.negotiated_rate = response.rate
        /\ loads' = loads)
          => ~("decision" \in DOMAIN response' /\ response'.decision = "reject")]_vars

\* C18 as stated: for a load of the table evaluate_offer returns a Decision
\* and does not raise, whatever integer negotiation_rounds is, 0 and
\* negative values included.
C18_AsStated ==
    (Evaluated /\ Found) => Decided

-----------------------------------------------------------------------------
(* C19 *)

\* the sum of the counts of a dict
RECURSIVE SumCounts(_)
SumCounts(d) ==
    IF DOMAIN d = {} THEN 0
    ELSE LET k == CHOOSE x \in DOMAIN d : TRUE
         IN  d[k] + SumCounts([x \in DOMAIN d \ {k} |-> d[x]])

\* a metrics response has been produced
Responded == metrics.stage = "responded"

\* C19 as stated: in every /api/metrics response the outcome counts sum to
\* total_calls and so do the sentiment counts, also when a call-completed
\* recording commits while the metrics request is being served.
C19_AsStated ==
    Responded =>
        /\ SumCounts(metrics.response.outcomes) = metrics.response.total_calls
        /\ SumCounts(metrics.response.sentiment) = metrics.response.total_calls

=============================================================================
